---- MODULE Spec2Model ----
(***************************************************************************)
(* A model of the e-tendering backend: the AI evaluator's response         *)
(* normalizer (AIEvaluator._parse_evaluation, called by evaluate_bid) and  *)
(* the organization's ranked evaluation list (get_project_evaluations)     *)
(* over the bids and evaluations tables.                                   *)
(*                                                                         *)
(* Texts are sequences of tokens.  A token is a TLA+ string holding the    *)
(* characters of the token (CharLen gives its length in characters).       *)
(* Numbers are fixed-point: the integer n stands for n/100.                *)
(***************************************************************************)
EXTENDS Integers, Sequences, FiniteSets, TLC

VARIABLES
    eval_pc,            \* position of the running evaluate_bid call
    project_criteria,   \* the project_criteria argument of evaluate_bid
    oracle_answer,      \* how the oracle composed its answer: [pre, body, post]
    evaluation_text,    \* response.text, the raw text given to _parse_evaluation
    evaluation_result,  \* what _parse_evaluation did: a return value or a raise
    earlier_call,       \* an earlier _parse_evaluation call: [text, result]
    generation_config,  \* AIEvaluator.model's configuration (self.model)
    oracle_calls        \* how often the running evaluate_bid called generate_content

parseVars == <<eval_pc, project_criteria, oracle_answer, evaluation_text, evaluation_result,
               earlier_call, generation_config, oracle_calls>>

VARIABLES
    evaluations,        \* the rows of the evaluations table
    writes,             \* how many writes to the evaluations table were attempted
    last_op,            \* the last write attempted on the evaluations table: [op, bid_id]
    rank_pc,            \* position of the running get_project_evaluations call
    bids,               \* its bids still to visit, in the order of the bids query
    total_bids,         \* len(bids) of the bids query
    evaluations_data,   \* its evaluations_data list
    response,           \* what the call answered
    snapshots,          \* the states the evaluations table went through during the call
    caller              \* the user who made the call

dbVars == <<evaluations, writes, last_op, rank_pc, bids, total_bids, evaluations_data,
            response, snapshots, caller>>

VARIABLES
    doc_pc,             \* position of the running DocumentProcessor.extract_text call
    file_extension,     \* its file_extension argument
    file_content,       \* its file_content argument, as the three libraries read it
    extractor,          \* the extractor extract_text handed the content to
    strategies,         \* the strategies _extract_from_excel went through
    warnings,           \* what logger.warning was given
    extracted_text      \* what extract_text did: a return value or a raise

docVars == <<doc_pc, file_extension, file_content, extractor, strategies, warnings,
             extracted_text>>

VARIABLES
    bid,                \* the bidder's bid: [status, submitted_at]
    documents,          \* the rows of the documents table of that bid
    upload_output,      \* what extract_text returned in the last upload_bid_document
    bidder_response,    \* what the last upload_bid_document or submit_bid answered
    build_pc,           \* position of the evaluation request that is being built
    doc_input,          \* the documents argument of evaluate_bid
    doc_summaries,      \* what _prepare_documents returned
    formatted           \* what _format_documents returned

buildVars == <<bid, documents, upload_output, bidder_response, build_pc, doc_input,
               doc_summaries, formatted>>

VARIABLES
    evaluation_request, \* the last get_bid_evaluation call: [current_user, bid_id]
    evaluation_response \* what it answered

viewVars == <<evaluation_request, evaluation_response>>

VARIABLES
    submitted_at,       \* Bid.submitted_at of the bids of the project
    earlier_answer      \* an earlier get_project_evaluations call: [table, response]

bidVars == <<submitted_at, earlier_answer>>

VARIABLES
    projects,           \* the rows of the projects table, by id
    bid_rows,           \* the rows of the bids table, by id
    document_rows,      \* the rows of the documents table, by id
    utcnow,             \* what datetime.utcnow() returns
    create_bid_calls,   \* the create_bid calls that are running: [pc, current_user, project_id]
    route_response      \* the last answer of a route: [route, status, detail]

routeVars == <<projects, bid_rows, document_rows, utcnow, create_bid_calls, route_response>>

\* The variables an action of one part of the backend leaves alone.
notParseVars == <<dbVars, docVars, buildVars, viewVars, bidVars, routeVars>>
notDbVars == <<parseVars, docVars, buildVars, viewVars, bidVars, routeVars>>
notDocVars == <<parseVars, dbVars, buildVars, viewVars, bidVars, routeVars>>
notBuildVars == <<parseVars, dbVars, docVars, viewVars, bidVars, routeVars>>
notViewVars == <<parseVars, dbVars, docVars, buildVars, bidVars, routeVars>>
notRouteVars == <<parseVars, dbVars, docVars, buildVars, viewVars, bidVars>>

(***************************************************************************)
(* JSON values, as json.loads builds them.                                 *)
(***************************************************************************)
Num(n)    == [kind |-> "num", n |-> n]
Str(s)    == [kind |-> "str", s |-> s]
Null      == [kind |-> "null"]
Obj(f)    == [kind |-> "obj", fields |-> f]
List(its) == [kind |-> "list", items |-> its]
\* A Python str holding a whole raw text (a token sequence).
Text(t)   == [kind |-> "text", text |-> t]

EmptyFields == [k \in {} |-> Null]
\* d[k] = v on a dict: a repeated key keeps the last value.
Put(f, k, v) == [j \in (DOMAIN f) \cup {k} |-> IF j = k THEN v ELSE f[j]]

IsObj(v) == v.kind = "obj"
IsNum(v) == v.kind = "num"
HasKey(v, k) == IsObj(v) /\ k \in DOMAIN v.fields

(***************************************************************************)
(* Tokens.                                                                 *)
(***************************************************************************)
Backtick == "BACKTICK"   \* the one character of a markdown fence
JsonTag  == "json"
Space    == " "
Prose    == "Here"
NullTok  == "null"

Keys == {"technical_evaluation", "financial_evaluation", "compliance_evaluation",
         "overall_assessment", "overall_score", "score", "recommendation",
         "status", "award", "pass", "80"}

StrLit(s) == "\"" \o s \o "\""
StrToks   == {StrLit(s) : s \in Keys}
StrVal(tok) == CHOOSE s \in Keys : StrLit(s) = tok

\* Number tokens and the value each denotes (in hundredths).
NumTable == [tok \in {"0", "5", "50", "70", "70.21", "80", "80.52", "90"} |->
                CASE tok = "0"     -> 0
                  [] tok = "5"     -> 500
                  [] tok = "50"    -> 5000
                  [] tok = "70"    -> 7000
                  [] tok = "70.21" -> 7021
                  [] tok = "80"    -> 8000
                  [] tok = "80.52" -> 8052
                  [] tok = "90"    -> 9000]
NumToks == DOMAIN NumTable
NumTok(n) == CHOOSE tok \in NumToks : NumTable[tok] = n

(***************************************************************************)
(* The oracle's answers: the JSON format the prompt asks for, rendered to  *)
(* text the way json.dumps would, and the wrappers a model puts around it. *)
(***************************************************************************)
KeyOrder == <<"technical_evaluation", "financial_evaluation",
              "compliance_evaluation", "overall_assessment",
              "score", "status", "overall_score", "recommendation">>

RECURSIVE Dump(_), DumpMembers(_, _, _), DumpItems(_, _)
Dump(v) ==
    CASE v.kind = "num"  -> <<NumTok(v.n)>>
      [] v.kind = "str"  -> <<StrLit(v.s)>>
      [] v.kind = "null" -> <<NullTok>>
      [] v.kind = "obj"  -> <<"{">> \o DumpMembers(v.fields, 1, TRUE) \o <<"}">>
      [] v.kind = "list" -> <<"[">> \o DumpItems(v.items, 1) \o <<"]">>
DumpMembers(f, i, first) ==
    IF i > Len(KeyOrder) THEN <<>>
    ELSE IF KeyOrder[i] \in DOMAIN f
         THEN (IF first THEN <<>> ELSE <<",">>)
              \o <<StrLit(KeyOrder[i]), ":">> \o Dump(f[KeyOrder[i]])
              \o DumpMembers(f, i + 1, FALSE)
         ELSE DumpMembers(f, i + 1, first)
DumpItems(its, i) ==
    IF i > Len(its) THEN <<>>
    ELSE (IF i = 1 THEN <<>> ELSE <<",">>) \o Dump(its[i]) \o DumpItems(its, i + 1)

(***************************************************************************)
(* Python string operations on a text.                                     *)
(***************************************************************************)
CharLen(tok) == IF tok = Backtick THEN 1 ELSE Len(tok)
IsSpace(tok) == tok = Space

\* str.strip(): the text without its leading and trailing whitespace.
RECURSIVE LStrip(_), RStrip(_)
LStrip(s) == IF s # <<>> /\ IsSpace(Head(s)) THEN LStrip(Tail(s)) ELSE s
RStrip(s) == IF s # <<>> /\ IsSpace(s[Len(s)])
             THEN RStrip(SubSeq(s, 1, Len(s) - 1)) ELSE s
Strip(s)  == RStrip(LStrip(s))

StartsWith(s, p) == Len(s) >= Len(p) /\ SubSeq(s, 1, Len(p)) = p
EndsWith(s, p)   == Len(s) >= Len(p) /\ SubSeq(s, Len(s) - Len(p) + 1, Len(s)) = p

\* s[n:] and s[:-n], n counted in characters.
RECURSIVE DropChars(_, _), DropLastChars(_, _)
DropChars(s, n) ==
    IF n <= 0 \/ s = <<>> THEN s ELSE DropChars(Tail(s), n - CharLen(Head(s)))
DropLastChars(s, n) ==
    IF n <= 0 \/ s = <<>> THEN s
    ELSE DropLastChars(SubSeq(s, 1, Len(s) - 1), n - CharLen(s[Len(s)]))

Fence     == <<Backtick, Backtick, Backtick>>
FenceJson == <<Backtick, Backtick, Backtick, JsonTag>>

\* Removal of the markdown code fence.
StripOpeningFence(cleaned) ==
    IF StartsWith(cleaned, FenceJson) THEN DropChars(cleaned, 7)
    ELSE IF StartsWith(cleaned, Fence) THEN DropChars(cleaned, 3)
    ELSE cleaned
StripClosingFenceAlways(cleaned) == DropLastChars(cleaned, 3)
StripClosingFence(cleaned) ==
    IF EndsWith(cleaned, Fence) THEN DropLastChars(cleaned, 3) ELSE cleaned

\* re.search(r'\{.*\}', cleaned, re.DOTALL): the leftmost '{' that has a '}'
\* after it, up to the last '}' (the match is greedy).  <<0, 0>>: no match.
BraceMatches(s) ==
    {m \in (1..Len(s)) \X (1..Len(s)) : m[1] < m[2] /\ s[m[1]] = "{" /\ s[m[2]] = "}"}
MinOf(S) == CHOOSE x \in S : \A y \in S : x <= y
MaxOf(S) == CHOOSE x \in S : \A y \in S : x >= y
JsonMatchLazy(s) ==
    IF BraceMatches(s) = {} THEN <<0, 0>>
    ELSE LET i == MinOf({m[1] : m \in BraceMatches(s)})
         IN  <<i, MinOf({m[2] : m \in {n \in BraceMatches(s) : n[1] = i}})>>
JsonMatch(s) ==
    IF BraceMatches(s) = {} THEN <<0, 0>>
    ELSE LET i == MinOf({m[1] : m \in BraceMatches(s)})
         IN  <<i, MaxOf({m[2] : m \in {n \in BraceMatches(s) : n[1] = i}})>>

(***************************************************************************)
(* json.loads on a text: a value, or JSONDecodeError.                      *)
(***************************************************************************)
Fail      == [ok |-> FALSE]
Ok(v, nx) == [ok |-> TRUE, val |-> v, next |-> nx]

RECURSIVE SkipSpace(_, _)
SkipSpace(s, i) == IF i <= Len(s) /\ IsSpace(s[i]) THEN SkipSpace(s, i + 1) ELSE i

RECURSIVE ParseValue(_, _), ParseMembers(_, _, _), ParseItems(_, _, _)
\* The value that starts at s[i].
ParseValue(s, i) ==
    IF i > Len(s) THEN Fail
    ELSE CASE s[i] = "{" ->
                LET j == SkipSpace(s, i + 1)
                IN  IF j <= Len(s) /\ s[j] = "}" THEN Ok(Obj(EmptyFields), j + 1)
                    ELSE ParseMembers(s, j, EmptyFields)
           [] s[i] = "[" ->
                LET j == SkipSpace(s, i + 1)
                IN  IF j <= Len(s) /\ s[j] = "]" THEN Ok(List(<<>>), j + 1)
                    ELSE ParseItems(s, j, <<>>)
           [] s[i] \in StrToks -> Ok(Str(StrVal(s[i])), i + 1)
           [] s[i] \in NumToks -> Ok(Num(NumTable[s[i]]), i + 1)
           [] s[i] = NullTok   -> Ok(Null, i + 1)
           [] OTHER            -> Fail
\* The members of an object from s[i] (a key) to its closing brace.
ParseMembers(s, i, fields) ==
    IF i > Len(s) \/ s[i] \notin StrToks THEN Fail
    ELSE LET c == SkipSpace(s, i + 1)
         IN  IF c > Len(s) \/ s[c] # ":" THEN Fail
             ELSE LET r == ParseValue(s, SkipSpace(s, c + 1))
                  IN  IF ~r.ok THEN Fail
                      ELSE LET e  == SkipSpace(s, r.next)
                               fs == Put(fields, StrVal(s[i]), r.val)
                           IN  IF e > Len(s) THEN Fail
                               ELSE IF s[e] = "}" THEN Ok(Obj(fs), e + 1)
                               ELSE IF s[e] = ","
                                    THEN ParseMembers(s, SkipSpace(s, e + 1), fs)
                               ELSE Fail
\* The items of an array from s[i] to its closing bracket.
ParseItems(s, i, items) ==
    LET r == ParseValue(s, i)
    IN  IF ~r.ok THEN Fail
        ELSE LET e   == SkipSpace(s, r.next)
                 its == Append(items, r.val)
             IN  IF e > Len(s) THEN Fail
                 ELSE IF s[e] = "]" THEN Ok(List(its), e + 1)
                 ELSE IF s[e] = "," THEN ParseItems(s, SkipSpace(s, e + 1), its)
                 ELSE Fail

\* json.loads(s): [ok |-> TRUE, val] or [ok |-> FALSE] (JSONDecodeError).
JsonLoads(s) ==
    LET r == ParseValue(s, SkipSpace(s, 1))
    IN  IF ~r.ok THEN Fail
        ELSE IF SkipSpace(s, r.next) <= Len(s) THEN Fail   \* "Extra data"
        ELSE Ok(r.val, r.next)

(***************************************************************************)
(* AIEvaluator._parse_evaluation.                                          *)
(***************************************************************************)
Return(v) == [out |-> "return", val |-> v]
Raise(e)  == [out |-> "raise", exc |-> e]
NoResult  == [out |-> "none"]

\* Python's `key in x`.  A dict has keys, a list has items, a str has
\* substrings (no string of Keys is a proper substring of another one that
\* is searched for); any other value is not iterable: TypeError.
IsContainer(x) == x.kind \in {"obj", "list", "str"}
Contains(x, key) ==
    CASE x.kind = "obj"  -> key \in DOMAIN x.fields
      [] x.kind = "list" -> \E i \in DOMAIN x.items : x.items[i] = Str(key)
      [] x.kind = "str"  -> x.s = key
      [] OTHER           -> FALSE

\* evaluation_data.get(section, {})
SectionOf(data, section) ==
    IF section \in DOMAIN data.fields THEN data.fields[section] ELSE Obj(EmptyFields)
\* <section>.get("score", 0)
ScoreOf(sec) == IF "score" \in DOMAIN sec.fields THEN sec.fields["score"] ELSE Num(0)

\* round(x, 2) of x = w/10000, in hundredths; a tie goes to the even neighbour.
Round2(w) ==
    LET q == w \div 100
        r == w % 100
    IN  IF r > 50 \/ (r = 50 /\ q % 2 = 1) THEN q + 1 ELSE q

\* (tech_score * 0.5) + (fin_score * 0.3) + (comp_score * 0.2), in 1/10000.
WeightedOverallByCriteria(tech, fin, comp) ==
    project_criteria.technical_weight * tech + project_criteria.financial_weight * fin
WeightedOverall(tech, fin, comp) == 50 * tech + 30 * fin + 20 * comp

\* Lines 190-201: the overall score is calculated if it is not provided.
FillOverallScore(evaluation_data) ==
    IF ~IsContainer(evaluation_data) THEN Raise("TypeError")
    ELSE IF ~Contains(evaluation_data, "overall_assessment") THEN Return(evaluation_data)
    ELSE IF ~IsObj(evaluation_data) THEN Raise("TypeError")
    ELSE LET oa == evaluation_data.fields["overall_assessment"]
         IN  IF ~IsContainer(oa) THEN Raise("TypeError")
             ELSE IF Contains(oa, "overall_score") THEN Return(evaluation_data)
             ELSE LET te == SectionOf(evaluation_data, "technical_evaluation")
                      fe == SectionOf(evaluation_data, "financial_evaluation")
                      ce == SectionOf(evaluation_data, "compliance_evaluation")
                  IN  IF ~(IsObj(te) /\ IsObj(fe) /\ IsObj(ce)) THEN Raise("AttributeError")
                      ELSE IF ~(IsNum(ScoreOf(te)) /\ IsNum(ScoreOf(fe)) /\ IsNum(ScoreOf(ce)))
                           THEN Raise("TypeError")
                      ELSE IF ~IsObj(oa) THEN Raise("TypeError")
                      ELSE LET overall == WeightedOverall(ScoreOf(te).n, ScoreOf(fe).n,
                                                          ScoreOf(ce).n)
                           IN  Return(Obj(Put(evaluation_data.fields, "overall_assessment",
                                   Obj(Put(oa.fields, "overall_score", Num(Round2(overall)))))))

\* Lines 208-218: the default structure returned when parsing fails.
DegradedWith(raw) ==
    Obj(  "technical_evaluation"  :> Obj("score" :> Num(0) @@
                                         "key_findings" :> Str("Evaluation parsing failed"))
       @@ "financial_evaluation"  :> Obj("score" :> Num(0) @@
                                         "key_findings" :> Str("Evaluation parsing failed"))
       @@ "compliance_evaluation" :> Obj("score" :> Num(0) @@ "status" :> Str("fail"))
       @@ "overall_assessment"    :> Obj("overall_score" :> Num(0) @@
                                         "recommendation" :> Str("reject") @@
                                         "summary" :> Str("Error parsing evaluation: JSONDecodeError"))
       @@ "raw_response"          :> Text(raw))
DegradedResultStripped(text) == DegradedWith(Strip(text))
DegradedResult(text) == DegradedWith(text)

\* Lines 171-188: the text handed to json.loads.
CleanedText(text) ==
    LET cleaned == StripClosingFence(StripOpeningFence(Strip(text)))
        m       == JsonMatch(cleaned)
    IN  Strip(IF m # <<0, 0>> THEN SubSeq(cleaned, m[1], m[2]) ELSE cleaned)

ParseEvaluation(text) ==
    LET loaded == JsonLoads(CleanedText(text))
    IN  IF loaded.ok THEN FillOverallScore(loaded.val)
        ELSE Return(DegradedResult(text))

(***************************************************************************)
(* The answers the oracle may give.  An answer is a body between a prefix  *)
(* and a suffix; a body is an evaluation object, each of its four sections *)
(* given well, given badly or left out, or some other text.                *)
(***************************************************************************)
Absent == [kind |-> "absent"]

TechnicalChoices ==
    {Absent, Obj(EmptyFields), Obj("score" :> Num(8000)), Obj("score" :> Num(8052)),
     Obj("score" :> Str("80")), Num(500)}
FinancialChoices ==
    {Absent, Obj("score" :> Num(7000)), Obj("score" :> Num(7021)), Obj("score" :> Null)}
ComplianceChoices ==
    {Absent, Obj("score" :> Num(9000) @@ "status" :> Str("pass")), List(<<Num(9000)>>)}
OverallChoices ==
    {Absent, Obj("recommendation" :> Str("award")),
     Obj("overall_score" :> Num(5000) @@ "recommendation" :> Str("award")),
     Num(500), Null}

EvaluationBodies ==
    [kind : {"evaluation"}, te : TechnicalChoices, fe : FinancialChoices,
     ce : ComplianceChoices, oa : OverallChoices]

\* The JSON object an evaluation body stands for.
EvaluationObject(b) ==
    LET present == {k \in {"te", "fe", "ce", "oa"} : b[k] # Absent}
        name(k) == CASE k = "te" -> "technical_evaluation"
                     [] k = "fe" -> "financial_evaluation"
                     [] k = "ce" -> "compliance_evaluation"
                     [] k = "oa" -> "overall_assessment"
        short(n) == CHOOSE k \in present : name(k) = n
    IN  Obj([n \in {name(k) : k \in present} |-> b[short(n)]])

OtherTexts ==
    { <<>>,
      <<Prose, Space, Prose>>,
      <<"80">>,
      <<NullTok>>,
      <<StrLit("overall_assessment")>>,
      <<"[", "80", ",", "70", "]">>,
      <<"[", StrLit("overall_assessment"), "]">>,
      <<"[", "{", "}", "]">>,
      <<"{", StrLit("overall_assessment"), ":", "{">>,
      <<"{", Prose, "}">>,
      <<"{", "}", Space, "{", "}">>,
      <<"}", Prose, "{">>,
      <<"{", StrLit("overall_assessment"), ":", "{", "}", ",", "}">>,
      <<"{", Space, StrLit("overall_assessment"), Space, ":", Space, "{", Space, "}",
        Space, "}">> }
OtherBodies == [kind : {"other"}, text : OtherTexts]

BodyText(b) == IF b.kind = "evaluation" THEN Dump(EvaluationObject(b)) ELSE b.text

Prefixes ==
    { <<>>, <<Space>>, <<Prose, Space>>,
      <<Backtick, Backtick, Backtick, JsonTag, Space>>,
      <<Backtick, Backtick, Backtick, JsonTag>>,
      <<Backtick, Backtick, Backtick, Space>>,
      <<Space, Backtick, Backtick, Backtick, JsonTag, Space>> }
Suffixes ==
    { <<>>, <<Space>>, <<Space, Prose>>,
      <<Space, Backtick, Backtick, Backtick>>,
      <<Backtick, Backtick, Backtick>>,
      <<Space, Backtick, Backtick, Backtick, Space>> }

Answers == [pre : Prefixes, body : EvaluationBodies \cup OtherBodies, post : Suffixes]
AnswerText(a) == a.pre \o BodyText(a.body) \o a.post
NoAnswer == [pre |-> <<>>, body |-> [kind |-> "none"], post |-> <<>>]

(***************************************************************************)
(* AIEvaluator.evaluate_bid: one oracle call, then _parse_evaluation; an   *)
(* exception of either is logged and raised again.                         *)
(***************************************************************************)
GenerationConfig ==
    [temperature |-> 30, top_p |-> 95, top_k |-> 40, max_output_tokens |-> 8192]

\* The criteria of a project (models.py, Project.evaluation_criteria).
Criteria ==
    { [technical_weight |-> 60, financial_weight |-> 40],
      [technical_weight |-> 70, financial_weight |-> 30] }

InitEvaluator ==
    /\ eval_pc = "call"
    /\ project_criteria \in Criteria
    /\ oracle_answer = NoAnswer
    /\ evaluation_text = <<>>
    /\ evaluation_result = NoResult
    /\ earlier_call = [text |-> <<>>, result |-> NoResult]
    /\ generation_config = GenerationConfig
    /\ oracle_calls = 0

\* response = self.model.generate_content(prompt); evaluation_text = response.text
GenerateContent(answers) ==
    /\ eval_pc = "call"
    /\ \E a \in answers :
          /\ oracle_answer' = a
          /\ evaluation_text' = AnswerText(a)
    /\ oracle_calls' = oracle_calls + 1
    /\ eval_pc' = "parse"
    /\ UNCHANGED <<project_criteria, evaluation_result, earlier_call, generation_config>>
    /\ UNCHANGED notParseVars

\* except Exception as e: logger.error(...); raise -- after a handler that
\* answers with the result of an evaluation that could not be read.
LogAndDegrade(e) == Return(DegradedResult(<<>>))
LogAndRaise(e) == Raise(e)

\* generate_content raises (transport, quota): evaluate_bid raises it again.
GenerateContentFails ==
    /\ eval_pc = "call"
    /\ oracle_calls' = oracle_calls + 1
    /\ evaluation_result' = LogAndRaise("OracleError")
    /\ eval_pc' = IF evaluation_result'.out = "return" THEN "returned" ELSE "raised"
    /\ UNCHANGED <<project_criteria, oracle_answer, evaluation_text, earlier_call,
                   generation_config>>
    /\ UNCHANGED notParseVars

\* evaluation_result = self._parse_evaluation(evaluation_text)
ParseEvaluationCall ==
    /\ eval_pc = "parse"
    /\ evaluation_result' = ParseEvaluation(evaluation_text)
    /\ eval_pc' = IF evaluation_result'.out = "return" THEN "returned" ELSE "raised"
    /\ UNCHANGED <<project_criteria, oracle_answer, evaluation_text, earlier_call,
                   generation_config, oracle_calls>>
    /\ UNCHANGED notParseVars

\* _parse_evaluation has run on evaluation_text and evaluation_result is its outcome.
Parsed ==
    /\ eval_pc \in {"returned", "raised"}
    /\ oracle_answer # NoAnswer
    /\ evaluation_result # Raise("OracleError")

\* The answers of the oracle in the runs that call the evaluator repeatedly.
RepeatedAnswers ==
    [pre  : {<<>>, <<Backtick, Backtick, Backtick, JsonTag, Space>>},
     body : [kind : {"evaluation"},
             te : {Obj("score" :> Num(8000)), Num(500)},
             fe : {Absent, Obj("score" :> Num(7021))},
             ce : {Obj("score" :> Num(9000) @@ "status" :> Str("pass"))},
             oa : {Absent, Obj("recommendation" :> Str("award")),
                   Obj("overall_score" :> Num(5000) @@ "recommendation" :> Str("award"))}]
            \cup [kind : {"other"}, text : {<<Prose, Space, Prose>>, <<"80">>}],
     post : {<<>>, <<Space, Backtick, Backtick, Backtick>>}]

\* The caller calls evaluate_bid again, for a project with its own criteria;
\* remember says whether the call that ended is the one kept in earlier_call.
NextCall ==
    /\ eval_pc \in {"returned", "raised"}
    /\ eval_pc' = "call"
    /\ project_criteria' \in Criteria
    /\ oracle_answer' = NoAnswer
    /\ evaluation_text' = <<>>
    /\ evaluation_result' = NoResult
    /\ \E remember \in BOOLEAN :
          earlier_call' = IF remember /\ Parsed
                          THEN [text |-> evaluation_text, result |-> evaluation_result]
                          ELSE earlier_call
    /\ oracle_calls' = 0
    /\ UNCHANGED generation_config
    /\ UNCHANGED notParseVars

(***************************************************************************)
(* The bids and evaluations tables (db/models.py) of one project.  Scores  *)
(* of stored evaluations are whole numbers of points.                      *)
(***************************************************************************)
\* The bids of the project and the time each was submitted.
BidIds == {1, 2, 3}
DistinctTimes == [b \in BidIds |-> b]

\* The users who call; the first owns the project.
Users == {"org_user", "other_org"}
ProjectOwner == "org_user"

\* Evaluation.rank is a nullable column: NoRank is NULL.
NoRank == 0
Scores == {70, 82, 95}

\* The table as create_test_data leaves it: one evaluation, of the first bid.
SeededAnalysis ==
    [technical_score |-> 55, financial_score |-> 38, compliance_score |-> 5,
     ai_analysis |-> "{'strengths': ['Good technical approach']}",
     is_qualified |-> 1, is_shortlisted |-> 1]
SeededEvaluations ==
    {[id |-> 1, bid_id |-> 1, overall_score |-> 98, rank |-> 1, created_at |-> 1]
         @@ SeededAnalysis}

RowsOf(table, b) == {r \in table : r.bid_id = b}
NextId(table) == 1 + MaxOf({0} \cup {r.id : r \in table})

\* A table without the constraint on bid_id.
NoConstraint(table) == TRUE
\* Evaluation.bid_id is unique=True: the table holds at most one row per bid.
UniqueBidId(table) == \A r1, r2 \in table : r1.bid_id = r2.bid_id => r1 = r2

Orderings(S) ==
    {s \in [1..Cardinality(S) -> S] : \A i, j \in DOMAIN s : s[i] = s[j] => i = j}

\* select(Bid).where(project_id == ...).order_by(Bid.submitted_at.desc())
\* The database fixes the order of rows of different times only.
BidOrders ==
    {s \in Orderings(BidIds) :
        \A i, j \in DOMAIN s : i < j => submitted_at[s[i]] >= submitted_at[s[j]]}
BidsBySubmittedAtDesc == CHOOSE s \in BidOrders : TRUE

\* evaluations_data.sort(key=overall_score, reverse=True): a stable sort, so
\* entries of equal score keep the order in which they were appended.
InsertByScore(x, sorted) ==
    LET k == Cardinality({i \in 1..Len(sorted) : sorted[i].overall_score >= x.overall_score})
    IN  SubSeq(sorted, 1, k) \o <<x>> \o SubSeq(sorted, k + 1, Len(sorted))
RECURSIVE SortByOverallScore(_)
SortByOverallScore(data) ==
    IF data = <<>> THEN <<>>
    ELSE InsertByScore(data[Len(data)], SortByOverallScore(SubSeq(data, 1, Len(data) - 1)))

\* The entry appended for a bid whose evaluation row is r.
Entry(r) ==
    [bid_id |-> r.bid_id, technical_score |-> r.technical_score,
     financial_score |-> r.financial_score, overall_score |-> r.overall_score,
     is_qualified |-> r.is_qualified, rank |-> r.rank, ai_analysis |-> r.ai_analysis]

NoResponse == [status |-> "none"]
NotFound == [status |-> "404", detail |-> "Project not found"]
MultipleResultsFound == [status |-> "500", detail |-> "MultipleResultsFound"]
Evaluations(total, data) ==
    [status |-> "200", total_bids |-> total, evaluations |-> SortByOverallScore(data)]

InitEvaluations ==
    /\ evaluations \in {{}, SeededEvaluations}
    /\ writes = 0
    /\ last_op = [op |-> "none", bid_id |-> 0, overall_score |-> 0]
    /\ rank_pc = "idle"
    /\ bids = <<>>
    /\ total_bids = 0
    /\ evaluations_data = <<>>
    /\ response = NoResponse
    /\ snapshots = {}
    /\ caller = "none"

\* The bids were submitted one after the other; no answer is remembered.
NoAnswerYet == [table |-> {}, response |-> NoResponse]
InitDb ==
    /\ InitEvaluations
    /\ submitted_at = DistinctTimes
    /\ earlier_answer = NoAnswerYet

(***************************************************************************)
(* get_project_evaluations, one action per awaited statement.              *)
(***************************************************************************)
\* The ownership query: a project of another user is answered 404.
GetProjectEvaluations(user) ==
    /\ rank_pc = "idle"
    /\ caller' = user
    /\ IF user = ProjectOwner
       THEN rank_pc' = "select_bids" /\ response' = NoResponse
       ELSE rank_pc' = "raised" /\ response' = NotFound
    /\ snapshots' = {evaluations}
    /\ UNCHANGED <<evaluations, writes, last_op, bids, total_bids, evaluations_data>>
    /\ UNCHANGED notDbVars

\* The bids query; without bids the empty list is returned at once.
SelectBids ==
    /\ rank_pc = "select_bids"
    /\ bids' \in BidOrders
    /\ total_bids' = Len(bids')
    /\ evaluations_data' = <<>>
    /\ IF bids' = <<>>
       THEN rank_pc' = "returned" /\ response' = Evaluations(total_bids', <<>>)
       ELSE rank_pc' = "loop" /\ UNCHANGED response
    /\ UNCHANGED <<evaluations, writes, last_op, snapshots, caller>>
    /\ UNCHANGED notDbVars

\* One turn of the loop: the evaluation query of the next bid and the append;
\* after the last bid the list is sorted and returned.
SelectEvaluation ==
    /\ rank_pc = "loop"
    /\ bids # <<>>
    /\ LET rows == RowsOf(evaluations, Head(bids))
       IN  IF Cardinality(rows) > 1
           THEN /\ rank_pc' = "raised"
                /\ response' = MultipleResultsFound
                /\ UNCHANGED <<bids, evaluations_data>>
           ELSE /\ evaluations_data' =
                      IF rows = {} THEN evaluations_data
                      ELSE Append(evaluations_data, Entry(CHOOSE r \in rows : TRUE))
                /\ bids' = Tail(bids)
                /\ IF bids' = <<>>
                   THEN /\ rank_pc' = "returned"
                        /\ response' = Evaluations(total_bids, evaluations_data')
                   ELSE UNCHANGED <<rank_pc, response>>
    /\ UNCHANGED <<evaluations, writes, last_op, total_bids, snapshots, caller>>
    /\ UNCHANGED notDbVars

\* The answer is sent; the next request may come.
NextRequest ==
    /\ rank_pc \in {"returned", "raised"}
    /\ rank_pc' = "idle"
    /\ bids' = <<>>
    /\ total_bids' = 0
    /\ evaluations_data' = <<>>
    /\ response' = NoResponse
    /\ snapshots' = {}
    /\ caller' = "none"
    /\ UNCHANGED <<evaluations, writes, last_op>>
    /\ UNCHANGED notDbVars

\* The next request may come, and the caller keeps the list that was
\* answered together with the table it was read from.
NextRequestAfterAnswer ==
    /\ rank_pc = "returned"
    /\ earlier_answer' = [table |-> evaluations, response |-> response]
    /\ rank_pc' = "idle"
    /\ bids' = <<>>
    /\ total_bids' = 0
    /\ evaluations_data' = <<>>
    /\ response' = NoResponse
    /\ snapshots' = {}
    /\ caller' = "none"
    /\ UNCHANGED <<evaluations, writes, last_op, submitted_at>>
    /\ UNCHANGED <<parseVars, docVars, buildVars, viewVars, routeVars>>

(***************************************************************************)
(* The writers of the evaluations table: the evaluation of one bid is      *)
(* saved, and the ranks of the project are assigned.                       *)
(***************************************************************************)
MaxWrites == 3

\* The table states a running get_project_evaluations call has lived through.
Seen(table) == IF rank_pc \in {"select_bids", "loop"} THEN snapshots \cup {table} ELSE snapshots

\* The columns of a row beside the overall score, as an evaluation that was
\* read, and as one that could not be read, fills them.
PlainAnalysis ==
    [technical_score |-> 50, financial_score |-> 30, compliance_score |-> 90,
     ai_analysis |-> "{'strengths': []}", is_qualified |-> 1, is_shortlisted |-> 0]
DegradedAnalysis ==
    [technical_score |-> 0, financial_score |-> 0, compliance_score |-> 0,
     ai_analysis |-> "{'summary': 'Error parsing evaluation'}",
     is_qualified |-> 0, is_shortlisted |-> 0]

\* The result of evaluating bid b is saved.  A writer that found the bid's
\* row overwrites it (the rank is kept or cleared); one that found none
\* inserts a row, which the table refuses when it breaks the constraint.
SaveEvaluation(b, score, analysis, found, keep_rank) ==
    /\ writes < MaxWrites
    /\ writes' = writes + 1
    /\ found => RowsOf(evaluations, b) # {}
    /\ keep_rank => found
    /\ IF found
       THEN /\ evaluations' =
                  {IF r.bid_id = b
                   THEN [id |-> r.id, bid_id |-> b, overall_score |-> score,
                         rank |-> IF keep_rank THEN r.rank ELSE NoRank,
                         created_at |-> r.created_at] @@ analysis
                   ELSE r : r \in evaluations}
            /\ last_op' = [op |-> "update", bid_id |-> b, overall_score |-> score]
       ELSE LET new == [id |-> NextId(evaluations), bid_id |-> b,
                        overall_score |-> score, rank |-> NoRank,
                        created_at |-> NextId(evaluations)] @@ analysis
            IN  IF UniqueBidId(evaluations \cup {new})
                THEN /\ evaluations' = evaluations \cup {new}
                     /\ last_op' = [op |-> "insert", bid_id |-> b, overall_score |-> score]
                ELSE /\ evaluations' = evaluations
                     /\ last_op' = [op |-> "rejected", bid_id |-> b, overall_score |-> score]
    /\ snapshots' = Seen(evaluations')
    /\ UNCHANGED <<rank_pc, bids, total_bids, evaluations_data, response, caller>>
    /\ UNCHANGED notDbVars

\* The orders of the rows by overall_score descending (any order among ties).
RankedOrders(table) ==
    {s \in Orderings(table) :
        \A i, j \in DOMAIN s : i < j => s[i].overall_score >= s[j].overall_score}

\* The explicit re-ranking: ranks 1..N in the order of the scores.
Rerank ==
    /\ writes < MaxWrites
    /\ writes' = writes + 1
    /\ evaluations # {}
    /\ \E order \in RankedOrders(evaluations) :
          evaluations' = {[order[i] EXCEPT !.rank = i] : i \in DOMAIN order}
    /\ last_op' = [op |-> "rerank", bid_id |-> 0, overall_score |-> 0]
    /\ snapshots' = Seen(evaluations')
    /\ UNCHANGED <<rank_pc, bids, total_bids, evaluations_data, response, caller>>
    /\ UNCHANGED notDbVars

(***************************************************************************)
(* DocumentProcessor (services/document_processor.py).  The bytes of a     *)
(* file are modelled by what each library makes of them: a call of a       *)
(* library returns a value or raises an exception with a message.          *)
(***************************************************************************)
\* "sep".join(parts), for parts that are texts (joined by halves).
RECURSIVE Join(_, _)
Join(sep, parts) ==
    IF parts = <<>> THEN <<>>
    ELSE IF Len(parts) = 1 THEN parts[1]
    ELSE LET half == Len(parts) \div 2
         IN  Join(sep, SubSeq(parts, 1, half)) \o <<sep>>
                 \o Join(sep, SubSeq(parts, half + 1, Len(parts)))

\* ---- _extract_from_pdf
MaxPages == 3

\* What page.extract_text() gives for a page.
PageOutcomes ==
    {Return(<<"alpha">>), Return(<<>>), Return(<<Space>>), Raise("unknown filter")}

\* What PyPDF2.PdfReader makes of the bytes: the pages, or an exception.
PdfViews ==
    {Raise("EOF marker not found")}
        \cup {Return(pages) : pages \in UNION {[1..n -> PageOutcomes] : n \in 0..MaxPages}}

\* f"--- Page {page_num + 1} ---\n"
PageNumberZeroBased(page_num) == page_num
PageNumber(page_num) == page_num + 1
PageMarker(page_num) == "--- Page " \o ToString(PageNumber(page_num)) \o " ---\n"

\* if text:
Truthy(text) == text # <<>>

\* The loop over range(len(pdf_reader.pages)), from page_num on: the
\* text_parts it leaves, or the exception of the first page that raises.
RECURSIVE PdfLoop(_, _, _)
PdfLoop(pages, page_num, text_parts) ==
    IF page_num >= Len(pages) THEN Return(text_parts)
    ELSE LET text == pages[page_num + 1]
         IN  IF text.out = "raise" THEN text
             ELSE PdfLoop(pages, page_num + 1,
                          IF Truthy(text.val)
                          THEN Append(text_parts, <<PageMarker(page_num)>> \o text.val)
                          ELSE text_parts)

\* The body of the try block of _extract_from_pdf.
PdfBody(pdf) ==
    IF pdf.out = "raise" THEN pdf
    ELSE LET parts == PdfLoop(pdf.val, 0, <<>>)
         IN  IF parts.out = "raise" THEN parts ELSE Return(Join("\n\n", parts.val))

\* An extractor that lets the exception through.
Reraised(format, body) == body
\* except Exception as e: return f"Error reading <format>: {str(e)}"
ErrorReading(format, body) ==
    IF body.out = "raise" THEN Return(<<"Error reading " \o format \o ": ", body.exc>>)
    ELSE body

ExtractFromPdf(pdf) == ErrorReading("PDF", PdfBody(pdf))

\* ---- _extract_from_docx
\* What docx.Document makes of the bytes: paragraphs and tables, or an exception.
Paragraphs == {<<>>, <<<<"Intro">>>>, <<<<Space>>, <<"Intro">>>>, <<<<"Intro">>, <<"Scope">>>>}
Tables ==
    {<<>>,
     << <<>> >>,
     << << <<<<"Item">>, <<Space, "Price", Space>>>>, <<<<"Pump">>, <<>>>> >> >>}
WordViews ==
    {Raise("Package not found")}
        \cup {Return([paragraphs |-> p, tables |-> t]) : p \in Paragraphs, t \in Tables}

MapSeq(Op(_), s) == [i \in 1..Len(s) |-> Op(s[i])]

\* " | ".join(cell.text.strip() for cell in row.cells)
DocxRowText(row) == Join(" | ", MapSeq(Strip, row))
\* "\n[TABLE]\n" + "\n".join(table_text) + "\n[/TABLE]"
DocxTableText(table) ==
    <<"\n[TABLE]\n">> \o Join("\n", MapSeq(DocxRowText, table)) \o <<"\n[/TABLE]">>

HasText(paragraph) == Truthy(Strip(paragraph))
HasRows(table) == table # <<>>

DocxBody(word) ==
    IF word.out = "raise" THEN word
    ELSE Return(Join("\n\n", SelectSeq(word.val.paragraphs, HasText)
                             \o MapSeq(DocxTableText, SelectSeq(word.val.tables, HasRows))))

ExtractFromDocx(word) == ErrorReading("Word document", DocxBody(word))

\* ---- _extract_from_excel
\* A cell read with values_only=True: None, a number or a string.
NoneCell == [kind |-> "none"]
IntCell(n) == [kind |-> "int", n |-> n]
StrCell(s) == [kind |-> "str", s |-> s]
\* str(cell) if cell is not None else ""
CellText(cell) ==
    IF cell = NoneCell THEN "" ELSE IF cell.kind = "int" THEN ToString(cell.n) ELSE cell.s

\* A sheet of n rows whose rows in empty hold no value; row i holds its number.
SheetRows(n, empty) ==
    [i \in 1..n |-> IF i \in empty THEN <<NoneCell, NoneCell>>
                    ELSE <<IntCell(i), NoneCell, StrCell("unit")>>]

\* What pd.read_excel(sheet_name=None) makes of the bytes: per sheet the
\* text of df.head(100).to_string and, for numeric columns, of describe().
PandasSheets ==
    {[sheet_name |-> "Prices", to_string |-> Return(<<"frame">>), numeric_cols |-> FALSE,
      describe |-> Return(<<"stats">>)],
     [sheet_name |-> "Prices", to_string |-> Return(<<"frame">>), numeric_cols |-> TRUE,
      describe |-> Return(<<"stats">>)],
     [sheet_name |-> "Prices", to_string |-> Return(<<"frame">>), numeric_cols |-> TRUE,
      describe |-> Raise("describe failed")],
     [sheet_name |-> "Notes", to_string |-> Raise("to_string failed"), numeric_cols |-> FALSE,
      describe |-> Return(<<"stats">>)]}
PandasViews ==
    {Raise("Excel file format cannot be determined"), Return(<<>>)}
        \cup {Return(<<a>>) : a \in PandasSheets}
        \cup {Return(<<a, b>>) : a, b \in PandasSheets}

\* What load_workbook makes of the bytes: per sheet its rows, or the
\* exception iter_rows raises on it.
OpenpyxlSheets ==
    {[sheet_name |-> "Prices", rows |-> Return(SheetRows(n, empty))] :
         n \in {0, 2, 100, 101, 103}, empty \in {{}, {2}, {1, 2}, {100, 101}}}
        \cup {[sheet_name |-> "Notes", rows |-> Raise("bad sheet")]}
ShortSheets == {s \in OpenpyxlSheets : s.rows.out = "raise" \/ Len(s.rows.val) = 2}
OpenpyxlViews ==
    {Raise("File is not a zip file"), Return(<<>>)}
        \cup {Return(<<a>>) : a \in OpenpyxlSheets}
        \cup {Return(<<a, b>>) : a \in OpenpyxlSheets, b \in ShortSheets}
\* Every pandas view beside a few openpyxl views, and every openpyxl view
\* beside a few pandas views that fail.
ExcelViews ==
    [pandas : PandasViews,
     openpyxl : {Raise("File is not a zip file"),
                 Return(<<[sheet_name |-> "Prices", rows |-> Return(SheetRows(2, {2}))]>>)}]
        \cup [pandas : {Raise("Excel file format cannot be determined"),
                        Return(<<[sheet_name |-> "Notes",
                                  to_string |-> Raise("to_string failed"),
                                  numeric_cols |-> FALSE,
                                  describe |-> Return(<<"stats">>)]>>)},
              openpyxl : OpenpyxlViews]

\* A loop over sheets that extends text_parts by the parts of each sheet and
\* ends with the first exception.
RECURSIVE SheetLoop(_, _)
SheetLoop(sheet_parts, text_parts) ==
    IF sheet_parts = <<>> THEN Return(text_parts)
    ELSE IF Head(sheet_parts).out = "raise" THEN Head(sheet_parts)
    ELSE SheetLoop(Tail(sheet_parts), text_parts \o Head(sheet_parts).val)

\* f"--- Sheet: {sheet_name} ---"
SheetHeader(sheet_name) == <<"--- Sheet: " \o sheet_name \o " ---">>

\* The text parts of one sheet in the pandas strategy, or its exception.
PandasSheetParts(sheet) ==
    IF sheet.to_string.out = "raise" THEN sheet.to_string
    ELSE LET parts == <<SheetHeader(sheet.sheet_name), sheet.to_string.val>>
         IN  IF ~sheet.numeric_cols THEN Return(parts)
             ELSE IF sheet.describe.out = "raise" THEN sheet.describe
             ELSE Return(parts \o <<<<"\n[SUMMARY STATISTICS]">>, sheet.describe.val>>)

\* The pandas strategy: the inner try block.
PandasBody(pandas) ==
    IF pandas.out = "raise" THEN pandas
    ELSE LET parts == SheetLoop(MapSeq(PandasSheetParts, pandas.val), <<>>)
         IN  IF parts.out = "raise" THEN parts ELSE Return(Join("\n\n", parts.val))

\* sheet.iter_rows(max_row=100, values_only=True)
max_row == 100
IterAllRows(rows) == rows
IterRows(rows) == SubSeq(rows, 1, IF Len(rows) < max_row THEN Len(rows) ELSE max_row)

\* any(cell is not None for cell in row)
AnyCell(row) == \E i \in 1..Len(row) : row[i] # NoneCell
\* " | ".join(str(cell) if cell is not None else "" for cell in row)
RowText(row) == Join(" | ", MapSeq(LAMBDA cell : <<CellText(cell)>>, row))

\* if row_idx >= 100: break
break_row_idx == 100

\* The loop over enumerate(iter_rows(...)): the rows up to the one whose
\* row_idx reaches the break are visited, those with a value are appended.
RowLoop(rows, text_parts) ==
    LET last == IF Len(rows) < break_row_idx + 1 THEN Len(rows) ELSE break_row_idx + 1
    IN  text_parts \o MapSeq(RowText, SelectSeq(SubSeq(rows, 1, last), AnyCell))

\* The text parts of one sheet in the openpyxl strategy, or its exception.
OpenpyxlSheetParts(sheet) ==
    IF sheet.rows.out = "raise" THEN sheet.rows
    ELSE Return(RowLoop(IterRows(sheet.rows.val), <<SheetHeader(sheet.sheet_name)>>))

\* The openpyxl strategy: the try block of the fallback.
OpenpyxlBody(openpyxl) ==
    IF openpyxl.out = "raise" THEN openpyxl
    ELSE LET parts == SheetLoop(MapSeq(OpenpyxlSheetParts, openpyxl.val), <<>>)
         IN  IF parts.out = "raise" THEN parts ELSE Return(Join("\n", parts.val))

\* _extract_from_excel: the strategies it went through and what it returns.
ExtractFromExcel(excel) ==
    LET primary == PandasBody(excel.pandas)
    IN  IF primary.out = "return"
        THEN [strategies |-> <<"pandas">>, result |-> primary]
        ELSE [strategies |-> <<"pandas", "openpyxl">>,
              result |-> ErrorReading("Excel file", OpenpyxlBody(excel.openpyxl))]

\* ---- extract_text
Extensions == {".pdf", ".docx", ".doc", ".xlsx", ".xls", ".PDF", ".txt", "", "pdf"}

\* Bytes that are a file of one format are no file of the others.
NotPdf == Raise("EOF marker not found")
NotWord == Raise("Package not found")
NotExcel == [pandas |-> Raise("Excel file format cannot be determined"),
             openpyxl |-> Raise("File is not a zip file")]
FileContents ==
    {[pdf |-> v, word |-> NotWord, excel |-> NotExcel] : v \in PdfViews}
        \cup {[pdf |-> NotPdf, word |-> v, excel |-> NotExcel] : v \in WordViews}
        \cup {[pdf |-> NotPdf, word |-> NotWord, excel |-> v] : v \in ExcelViews}

\* The branch extract_text takes; the extensions without the legacy formats.
DispatchModern(extension) ==
    IF extension = ".pdf" THEN "pdf"
    ELSE IF extension = ".docx" THEN "docx"
    ELSE IF extension = ".xlsx" THEN "excel"
    ELSE "none"
Dispatch(extension) ==
    IF extension = ".pdf" THEN "pdf"
    ELSE IF extension \in {".docx", ".doc"} THEN "docx"
    ELSE IF extension \in {".xlsx", ".xls"} THEN "excel"
    ELSE "none"

\* The try block of extract_text.
ExtractTextBody(content, extension) ==
    CASE Dispatch(extension) = "pdf" -> ExtractFromPdf(content.pdf)
      [] Dispatch(extension) = "docx" -> ExtractFromDocx(content.word)
      [] Dispatch(extension) = "excel" -> ExtractFromExcel(content.excel).result
      [] OTHER -> Return(<<>>)

\* extract_text with its handler: return f"Error extracting text: {str(e)}"
ExtractText(content, extension) ==
    LET body == ExtractTextBody(content, extension)
    IN  IF body.out = "raise" THEN Return(<<"Error extracting text: ", body.exc>>) ELSE body

\* No extract_text call is running.
IdleDocuments ==
    /\ doc_pc = "idle"
    /\ file_extension = ""
    /\ file_content = [pdf |-> NotPdf, word |-> NotWord, excel |-> NotExcel]
    /\ extractor = "none"
    /\ strategies = <<>>
    /\ warnings = <<>>
    /\ extracted_text = NoResult

\* extract_text is called with the bytes and the extension of a file.
ExtractTextCall ==
    /\ doc_pc = "idle"
    /\ \E content \in FileContents, extension \in Extensions :
          /\ file_content' = content
          /\ file_extension' = extension
    /\ doc_pc' = "call"
    /\ UNCHANGED <<extractor, strategies, warnings, extracted_text>>
    /\ UNCHANGED notDocVars

\* extract_text runs to its return.
ExtractTextReturn ==
    /\ doc_pc = "call"
    /\ extractor' = Dispatch(file_extension)
    /\ strategies' = IF extractor' = "excel"
                     THEN ExtractFromExcel(file_content.excel).strategies ELSE <<>>
    /\ warnings' = IF extractor' = "none"
                   THEN <<"Unsupported file extension: " \o file_extension>> ELSE <<>>
    /\ extracted_text' = ExtractText(file_content, file_extension)
    /\ doc_pc' = "done"
    /\ UNCHANGED <<file_extension, file_content>>
    /\ UNCHANGED notDocVars

(***************************************************************************)
(* The documents of a bid: upload_bid_document and submit_bid              *)
(* (api/routes/bidder.py), then _prepare_documents and _format_documents   *)
(* (services/ai_evaluator.py).  Here a text is a sequence of characters.   *)
(***************************************************************************)
\* The text of n characters; its i-th character tells i.
Digits == <<"0", "1", "2", "3", "4", "5", "6", "7", "8", "9">>
TextOfLen(n) == [i \in 1..n |-> Digits[(i % 10) + 1]]

\* text[:limit], after the text as it is.
Unsliced(text, limit) == text
Slice(text, limit) == SubSeq(text, 1, IF Len(text) < limit THEN Len(text) ELSE limit)

\* extracted_text[:10000], extracted_text[:5000], doc['content'][:2000]
stored_limit == 10000
content_limit == 5000
excerpt_limit == 2000

\* What extract_text may return on the file of an upload: texts around the limits.
OutputLengths == {0, 3, 2000, 2001, 5001, 10001}
ExtractorOutputs == {TextOfLen(n) : n \in OutputLengths}

Bidders == {"bidder_user", "other_bidder"}
BidOwner == "bidder_user"
DocumentTypes == {"technical", "financial"}
Filenames == {"", "OFFER.PDF", "notes.txt"}

\* os.path.splitext(file.filename)[1].lower()
FileExt(filename) ==
    CASE filename = "OFFER.PDF" -> ".pdf"
      [] filename = "notes.txt" -> ".txt"
      [] OTHER -> ""
\* settings.ALLOWED_EXTENSIONS
ALLOWED_EXTENSIONS == {".pdf", ".docx", ".xlsx", ".xls", ".doc"}

MaxDocuments == 2

Status(code, detail) == [status |-> code, detail |-> detail]

\* No request of the bidder was answered and no evaluation request is built.
IdleBuild ==
    /\ bid = [status |-> "draft", submitted_at |-> "NULL"]
    /\ documents = <<>>
    /\ upload_output = <<>>
    /\ bidder_response = NoResponse
    /\ build_pc = "idle"
    /\ doc_input = <<>>
    /\ doc_summaries = <<>>
    /\ formatted = <<>>

\* upload_bid_document: the checks, then the text extract_text returns for
\* the file is cut and stored in a new row.
UploadBidDocument(current_user, document_type, filename, output) ==
    /\ Len(documents) < MaxDocuments
    /\ build_pc = "idle"
    /\ IF current_user # BidOwner
       THEN /\ bidder_response' = Status("404", "Bid not found")
            /\ UNCHANGED <<documents, upload_output>>
       ELSE IF bid.status = "submitted"
       THEN /\ bidder_response' = Status("400", "Cannot modify submitted bid")
            /\ UNCHANGED <<documents, upload_output>>
       ELSE IF filename = ""
       THEN /\ bidder_response' = Status("400", "No file provided")
            /\ UNCHANGED <<documents, upload_output>>
       ELSE IF FileExt(filename) \notin ALLOWED_EXTENSIONS
       THEN /\ bidder_response' = Status("400", "File type " \o FileExt(filename) \o " not allowed")
            /\ UNCHANGED <<documents, upload_output>>
       ELSE /\ upload_output' = output
            /\ documents' = Append(documents,
                                   [document_type |-> document_type,
                                    filename |-> filename,
                                    extracted_text |-> Slice(output, stored_limit)])
            /\ bidder_response' = Status("200", "Document uploaded successfully")
    /\ UNCHANGED <<bid, build_pc, doc_input, doc_summaries, formatted>>
    /\ UNCHANGED notBuildVars

\* submit_bid: a draft with at least one document becomes submitted.
SubmitBid(current_user) ==
    /\ build_pc = "idle"
    /\ IF current_user # BidOwner
       THEN bidder_response' = Status("404", "Bid not found") /\ UNCHANGED bid
       ELSE IF bid.status = "submitted"
       THEN bidder_response' = Status("400", "Bid already submitted") /\ UNCHANGED bid
       ELSE IF Len(documents) = 0
       THEN /\ bidder_response' =
                  Status("400", "Please upload at least one document before submitting")
            /\ UNCHANGED bid
       ELSE /\ bid' = [status |-> "submitted", submitted_at |-> "utcnow"]
            /\ bidder_response' = Status("200", "Bid submitted successfully")
    /\ UNCHANGED <<documents, upload_output, build_pc, doc_input, doc_summaries, formatted>>
    /\ UNCHANGED notBuildVars

\* ---- the documents argument of evaluate_bid
\* The dictionary made of a row: all its keys, or without its document_type,
\* or its document_type alone.
Shapes == {"full", "untyped", "bare"}
DocumentDict(row, shape) ==
    CASE shape = "full" ->
             [document_type |-> row.document_type, filename |-> StrCell(row.filename),
              extracted_text |-> row.extracted_text, metadata |-> "{'pages': 10}"]
      [] shape = "untyped" ->
             [filename |-> StrCell(row.filename), extracted_text |-> row.extracted_text]
      [] OTHER -> [document_type |-> row.document_type]
DocumentDicts(rows, shapes) == [i \in DOMAIN rows |-> DocumentDict(rows[i], shapes[i])]

\* doc.get(key, default)
Get(doc, key, default) == IF key \in DOMAIN doc THEN doc[key] ELSE default

\* ---- _prepare_documents
\* doc.get("document_type", "unknown"), and a version with another default.
DocTypeOrOther(doc) == Get(doc, "document_type", "other")
DocType(doc) == Get(doc, "document_type", "unknown")

\* The entry appended for a document.
Summary(doc) ==
    [filename |-> Get(doc, "filename", NoneCell),
     content |-> Slice(Get(doc, "extracted_text", <<>>), content_limit),
     metadata |-> Get(doc, "metadata", "{}")]

\* The loop over documents; doc_summaries is a dict, kept here as the
\* sequence of its keys with their lists, in the order the keys were added.
RECURSIVE PrepareLoop(_, _)
PrepareLoop(docs, summaries) ==
    IF docs = <<>> THEN summaries
    ELSE LET doc == Head(docs)
             doc_type == DocType(doc)
             keyed == IF \E i \in DOMAIN summaries : summaries[i].doc_type = doc_type
                      THEN summaries
                      ELSE Append(summaries, [doc_type |-> doc_type, docs |-> <<>>])
         IN  PrepareLoop(Tail(docs),
                         [i \in DOMAIN keyed |->
                             IF keyed[i].doc_type = doc_type
                             THEN [keyed[i] EXCEPT !.docs = Append(@, Summary(doc))]
                             ELSE keyed[i]])
PrepareDocuments(docs) == PrepareLoop(docs, <<>>)

\* ---- _format_documents
\* doc_type.upper()
Upper(doc_type) ==
    CASE doc_type = "technical" -> "TECHNICAL"
      [] doc_type = "financial" -> "FINANCIAL"
      [] doc_type = "unknown" -> "UNKNOWN"
      [] doc_type = "other" -> "OTHER"
\* f"{doc['filename']}"
FormatValue(cell) == IF cell = NoneCell THEN "None" ELSE cell.s

\* f"\n**File: {doc['filename']}**\n" and f"{doc['content'][:2000]}...\n"
FormatDocument(doc) ==
    <<"\n**File: " \o FormatValue(doc.filename) \o "**\n">>
        \o Slice(doc.content, excerpt_limit) \o <<"...\n">>

RECURSIVE FormatDocs(_)
FormatDocs(docs) ==
    IF docs = <<>> THEN <<>> ELSE FormatDocument(Head(docs)) \o FormatDocs(Tail(docs))
RECURSIVE FormatDocuments(_)
FormatDocuments(summaries) ==
    IF summaries = <<>> THEN <<>>
    ELSE <<"\n### " \o Upper(Head(summaries).doc_type) \o " DOCUMENTS\n">>
             \o FormatDocs(Head(summaries).docs) \o FormatDocuments(Tail(summaries))

\* evaluate_bid is called with the documents of the bid: _prepare_documents.
PrepareDocumentsCall ==
    /\ build_pc = "idle"
    /\ \E shapes \in [DOMAIN documents -> Shapes] :
          doc_input' = DocumentDicts(documents, shapes)
    /\ doc_summaries' = PrepareDocuments(doc_input')
    /\ build_pc' = "prepared"
    /\ UNCHANGED <<bid, documents, upload_output, bidder_response, formatted>>
    /\ UNCHANGED notBuildVars

\* _create_evaluation_prompt: _format_documents renders the summaries.
FormatDocumentsCall ==
    /\ build_pc = "prepared"
    /\ formatted' = FormatDocuments(doc_summaries)
    /\ build_pc' = "formatted"
    /\ UNCHANGED <<bid, documents, upload_output, bidder_response, doc_input, doc_summaries>>
    /\ UNCHANGED notBuildVars

(***************************************************************************)
(* get_bid_evaluation (routes/bidder.py): what a bidder is told about the  *)
(* evaluation of a bid.                                                    *)
(***************************************************************************)
\* Bid.bidder_id: the bidder of each bid of the project.
bidder_id == [b \in BidIds |-> IF b = 2 THEN "other_bidder" ELSE "bidder_user"]

\* The users who may ask, and the bids they may ask about (4 is no bid).
AllUsers == Users \cup Bidders
RequestedBids == BidIds \cup {4}

\* if not evaluation -- after a test that also asks for a score.
HasScoredEvaluation(rows) == \E r \in rows : r.overall_score > 0
HasEvaluation(rows) == rows # {}

\* The dict returned for an evaluation -- after one with the full analysis.
FullEvaluation(r) ==
    [bid_id |-> r.bid_id, status |-> "evaluated", overall_score |-> r.overall_score,
     is_qualified |-> r.is_qualified, is_shortlisted |-> r.is_shortlisted,
     rank |-> r.rank, evaluation_date |-> r.created_at, ai_analysis |-> r.ai_analysis]
LimitedEvaluation(r) ==
    [bid_id |-> r.bid_id, status |-> "evaluated", overall_score |-> r.overall_score,
     is_qualified |-> r.is_qualified, is_shortlisted |-> r.is_shortlisted,
     rank |-> r.rank, evaluation_date |-> r.created_at]

PendingEvaluation(bid_id) ==
    [bid_id |-> bid_id, status |-> "pending_evaluation",
     message |-> "Your bid is being evaluated"]
BidNotFound == [status |-> "404", detail |-> "Bid not found"]

\* The handler on a state of the evaluations table.
BidEvaluation(user, bid_id, table) ==
    IF ~(bid_id \in BidIds /\ bidder_id[bid_id] = user)
    THEN BidNotFound
    ELSE LET rows == RowsOf(table, bid_id)
         IN  IF Cardinality(rows) > 1 THEN MultipleResultsFound
             ELSE IF ~HasEvaluation(rows) THEN PendingEvaluation(bid_id)
             ELSE LimitedEvaluation(CHOOSE r \in rows : TRUE)

\* No bidder has asked.
IdleView ==
    /\ evaluation_request = [current_user |-> "none", bid_id |-> 0]
    /\ evaluation_response = NoResponse

GetBidEvaluation(user, bid_id) ==
    /\ evaluation_request' = [current_user |-> user, bid_id |-> bid_id]
    /\ evaluation_response' = BidEvaluation(user, bid_id, evaluations)
    /\ UNCHANGED notViewVars

(***************************************************************************)
(* The routes that create, submit and award bids (routes/bidder.py,        *)
(* routes/organization.py) on the projects, bids and documents tables.     *)
(* A route that awaits one statement after the other is one action unless  *)
(* a claim is about its interleaving: create_bid is one action per         *)
(* awaited statement.                                                      *)
(***************************************************************************)
\* User.role
role == [u \in AllUsers |-> IF u \in Users THEN "organization" ELSE "bidder"]

\* Bid.submitted_at is a nullable column: NoTime is NULL.
NoTime == 0
MaxTime == 2
MaxProjects == 2
MaxBids == 3
MaxDocumentRows == 2
Calls == {1, 2}

\* The tables as create_test_data leaves them: an active project of
\* org_user with a submitted bid of bidder_user that has one document.
SeededProjects == <<[organization_id |-> "org_user", status |-> "active", deadline |-> 1]>>
SeededBids ==
    <<[project_id |-> 1, bidder_id |-> "bidder_user", status |-> "submitted",
       submitted_at |-> 1]>>
SeededDocuments == <<[bid_id |-> 1]>>

NoCall == [pc |-> "idle", current_user |-> "none", project_id |-> 0]
Answer(route, code, detail) == [route |-> route, status |-> code, detail |-> detail]

IdleRoutes ==
    /\ projects = SeededProjects
    /\ bid_rows = SeededBids
    /\ document_rows = SeededDocuments
    /\ utcnow = 1
    /\ create_bid_calls = [c \in Calls |-> NoCall]
    /\ route_response = Answer("none", "none", "none")

\* Time passes.
Tick ==
    /\ utcnow < MaxTime
    /\ utcnow' = utcnow + 1
    /\ UNCHANGED <<projects, bid_rows, document_rows, create_bid_calls, route_response>>
    /\ UNCHANGED notRouteVars

\* The ids of the rows a query selects.
BidsOf(project_id, user) ==
    {b \in DOMAIN bid_rows :
        bid_rows[b].project_id = project_id /\ bid_rows[b].bidder_id = user}
DocumentsOf(bid_id) == {d \in DOMAIN document_rows : document_rows[d].bid_id = bid_id}

\* Project.organization_id == current_user.id, Bid.bidder_id == current_user.id
OwnsProject(user, project_id) ==
    project_id \in DOMAIN projects /\ projects[project_id].organization_id = user
OwnsBid(user, bid_id) == bid_id \in DOMAIN bid_rows /\ bid_rows[bid_id].bidder_id = user

\* ---- create_project
create_project(user, deadline) ==
    /\ Len(projects) < MaxProjects
    /\ IF role[user] # "organization"
       THEN /\ route_response' =
                  Answer("create_project", "403", "Only organizations can create projects")
            /\ UNCHANGED projects
       ELSE /\ projects' = Append(projects, [organization_id |-> user, status |-> "draft",
                                              deadline |-> deadline])
            /\ route_response' = Answer("create_project", "200", "created")
    /\ UNCHANGED <<bid_rows, document_rows, utcnow, create_bid_calls>>
    /\ UNCHANGED notRouteVars

\* ---- publish_project
publish_project(user, project_id) ==
    /\ IF ~OwnsProject(user, project_id)
       THEN /\ route_response' = Answer("publish_project", "404", "Project not found")
            /\ UNCHANGED projects
       ELSE /\ projects' = [projects EXCEPT ![project_id].status = "active"]
            /\ route_response' =
                  Answer("publish_project", "200", "Project published successfully")
    /\ UNCHANGED <<bid_rows, document_rows, utcnow, create_bid_calls>>
    /\ UNCHANGED notRouteVars

\* ---- create_bid
\* project.status != ProjectStatus.ACTIVE is refused -- after a test that
\* refuses awarded projects only.
NotAwarded(project) == project.status # "awarded"
AcceptingBids(project) == project.status = "active"

\* The role test, the project query and the tests on the project.
create_bid(c, user, project_id) ==
    /\ create_bid_calls[c].pc = "idle"
    /\ Len(bid_rows) < MaxBids
    /\ LET refused(code, detail) ==
               /\ route_response' = Answer("create_bid", code, detail)
               /\ UNCHANGED create_bid_calls
       IN  IF role[user] # "bidder"
           THEN refused("403", "Only bidders can create bids")
           ELSE IF project_id \notin DOMAIN projects
           THEN refused("404", "Project not found")
           ELSE IF ~AcceptingBids(projects[project_id])
           THEN refused("400", "Project is not accepting bids")
           ELSE IF projects[project_id].deadline < utcnow
           THEN refused("400", "Project deadline has passed")
           ELSE /\ create_bid_calls' =
                      [create_bid_calls EXCEPT ![c] =
                          [pc |-> "existing", current_user |-> user,
                           project_id |-> project_id]]
                /\ UNCHANGED route_response
    /\ UNCHANGED <<projects, bid_rows, document_rows, utcnow>>
    /\ UNCHANGED notRouteVars

\* The query for an existing bid of the bidder.
select_existing_bid(c) ==
    /\ create_bid_calls[c].pc = "existing"
    /\ LET call == create_bid_calls[c]
           existing == BidsOf(call.project_id, call.current_user)
       IN  IF Cardinality(existing) > 1
           THEN /\ route_response' = Answer("create_bid", "500", "MultipleResultsFound")
                /\ create_bid_calls' = [create_bid_calls EXCEPT ![c] = NoCall]
           ELSE IF existing # {}
           THEN /\ route_response' =
                      Answer("create_bid", "400",
                             "You have already submitted a bid for this project")
                /\ create_bid_calls' = [create_bid_calls EXCEPT ![c] = NoCall]
           ELSE /\ create_bid_calls' = [create_bid_calls EXCEPT ![c].pc = "commit"]
                /\ UNCHANGED route_response
    /\ UNCHANGED <<projects, bid_rows, document_rows, utcnow>>
    /\ UNCHANGED notRouteVars

\* db.add(db_bid); await db.commit()
commit_bid(c) ==
    /\ create_bid_calls[c].pc = "commit"
    /\ bid_rows' = Append(bid_rows, [project_id |-> create_bid_calls[c].project_id,
                                      bidder_id |-> create_bid_calls[c].current_user,
                                      status |-> "draft", submitted_at |-> NoTime])
    /\ route_response' = Answer("create_bid", "200", "created")
    /\ create_bid_calls' = [create_bid_calls EXCEPT ![c] = NoCall]
    /\ UNCHANGED <<projects, document_rows, utcnow>>
    /\ UNCHANGED notRouteVars

\* ---- upload_bid_document, with a file that is accepted
upload_bid_document(user, bid_id) ==
    /\ Len(document_rows) < MaxDocumentRows
    /\ IF ~OwnsBid(user, bid_id)
       THEN /\ route_response' = Answer("upload_bid_document", "404", "Bid not found")
            /\ UNCHANGED document_rows
       ELSE IF bid_rows[bid_id].status = "submitted"
       THEN /\ route_response' =
                  Answer("upload_bid_document", "400", "Cannot modify submitted bid")
            /\ UNCHANGED document_rows
       ELSE /\ document_rows' = Append(document_rows, [bid_id |-> bid_id])
            /\ route_response' =
                  Answer("upload_bid_document", "200", "Document uploaded successfully")
    /\ UNCHANGED <<projects, bid_rows, utcnow, create_bid_calls>>
    /\ UNCHANGED notRouteVars

\* ---- submit_bid
\* len(documents) == 0 is refused -- after a route without that test.
NoDocumentsNeeded(documents_of_bid) == FALSE
NoDocuments(documents_of_bid) == Cardinality(documents_of_bid) = 0

submit_bid(user, bid_id) ==
    /\ IF ~OwnsBid(user, bid_id)
       THEN /\ route_response' = Answer("submit_bid", "404", "Bid not found")
            /\ UNCHANGED bid_rows
       ELSE IF bid_rows[bid_id].status = "submitted"
       THEN /\ route_response' = Answer("submit_bid", "400", "Bid already submitted")
            /\ UNCHANGED bid_rows
       ELSE IF NoDocuments(DocumentsOf(bid_id))
       THEN /\ route_response' =
                  Answer("submit_bid", "400",
                         "Please upload at least one document before submitting")
            /\ UNCHANGED bid_rows
       ELSE /\ bid_rows' = [bid_rows EXCEPT ![bid_id].status = "submitted",
                                            ![bid_id].submitted_at = utcnow]
            /\ route_response' = Answer("submit_bid", "200", "Bid submitted successfully")
    /\ UNCHANGED <<projects, document_rows, utcnow, create_bid_calls>>
    /\ UNCHANGED notRouteVars

\* ---- award_contract
\* The bid of the award -- after an award of every bid of the project.
BidsOfProject(project_id, bid_id) ==
    {b \in DOMAIN bid_rows : bid_rows[b].project_id = project_id}
BidOfProject(project_id, bid_id) ==
    {b \in DOMAIN bid_rows : b = bid_id /\ bid_rows[b].project_id = project_id}

\* After the commit the answer reads bid.bidder.company_name, a relationship
\* that was not loaded: the answer is sent when the bidder is in the
\* session, and the lazy load fails (MissingGreenlet) when it is not.
AwardAnswers ==
    {Answer("award_contract", "200", "Contract awarded successfully"),
     Answer("award_contract", "500", "MissingGreenlet")}

award_contract(user, project_id, bid_id) ==
    /\ IF ~OwnsProject(user, project_id)
       THEN /\ route_response' = Answer("award_contract", "404", "Project not found")
            /\ UNCHANGED <<projects, bid_rows>>
       ELSE IF BidOfProject(project_id, bid_id) = {}
       THEN /\ route_response' = Answer("award_contract", "404", "Bid not found")
            /\ UNCHANGED <<projects, bid_rows>>
       ELSE /\ bid_rows' = [b \in DOMAIN bid_rows |->
                               IF b \in BidOfProject(project_id, bid_id)
                               THEN [bid_rows[b] EXCEPT !.status = "awarded"]
                               ELSE bid_rows[b]]
            /\ projects' = [projects EXCEPT ![project_id].status = "awarded"]
            /\ route_response' \in AwardAnswers
    /\ UNCHANGED <<document_rows, utcnow, create_bid_calls>>
    /\ UNCHANGED notRouteVars

vars == <<parseVars, dbVars, docVars, buildVars, viewVars, bidVars, routeVars>>

NextParse ==
    \/ GenerateContent(Answers)
    \/ GenerateContentFails
    \/ ParseEvaluationCall

\* The evaluator runs beside an empty evaluations table.
InitParse ==
    InitEvaluator /\ InitDb /\ evaluations = {} /\ IdleDocuments /\ IdleBuild /\ IdleView /\ IdleRoutes

SpecParse == InitParse /\ [][NextParse]_vars

NextRepeated ==
    \/ GenerateContent(RepeatedAnswers)
    \/ GenerateContentFails
    \/ ParseEvaluationCall
    \/ NextCall

SpecRepeated == InitParse /\ [][NextRepeated]_vars

\* The criteria of the seeded project.
SeededCriteria == [technical_weight |-> 60, financial_weight |-> 40]

InitRanking ==
    /\ InitDb /\ InitEvaluator /\ project_criteria = SeededCriteria
    /\ IdleDocuments /\ IdleBuild /\ IdleView /\ IdleRoutes

NextRanking ==
    \/ \E user \in Users : GetProjectEvaluations(user)
    \/ SelectBids
    \/ SelectEvaluation
    \/ NextRequest
    \/ \E b \in BidIds, score \in Scores, found, keep_rank \in BOOLEAN :
          SaveEvaluation(b, score, PlainAnalysis, found, keep_rank)
    \/ Rerank

SpecRanking == InitRanking /\ [][NextRanking]_vars

\* The document processor runs beside an idle evaluator and an empty table.
InitExtract == InitParse /\ project_criteria = SeededCriteria

NextExtract ==
    \/ ExtractTextCall
    \/ ExtractTextReturn

SpecExtract == InitExtract /\ [][NextExtract]_vars

\* The bidder uploads documents and submits; the evaluation request is built.
NextBuild ==
    \/ \E current_user \in Bidders, document_type \in DocumentTypes,
          filename \in Filenames, output \in ExtractorOutputs :
          UploadBidDocument(current_user, document_type, filename, output)
    \/ \E current_user \in Bidders : SubmitBid(current_user)
    \/ PrepareDocumentsCall
    \/ FormatDocumentsCall

\* The bid is a draft without documents; the other parts are idle.
InitBuild == InitParse /\ project_criteria = SeededCriteria

SpecBuild == InitBuild /\ [][NextBuild]_vars

\* The results an evaluation is saved with: one that was read, the same with
\* another analysis and other part scores, and a degraded one.
OtherAnalysis ==
    [technical_score |-> 40, financial_score |-> 35, compliance_score |-> 60,
     ai_analysis |-> "{'weaknesses': ['Budget slightly high']}",
     is_qualified |-> 1, is_shortlisted |-> 0]
SavedResults ==
    { [overall_score |-> 82, analysis |-> PlainAnalysis],
      [overall_score |-> 82, analysis |-> OtherAnalysis],
      [overall_score |-> 0, analysis |-> DegradedAnalysis] }

\* Bidders and organizations ask and evaluations are saved, one request
\* being served at a time.
NextView ==
    \/ /\ rank_pc = "idle"
       /\ \E user \in AllUsers, bid_id \in RequestedBids : GetBidEvaluation(user, bid_id)
    \/ \E user \in AllUsers : GetProjectEvaluations(user)
    \/ SelectBids
    \/ SelectEvaluation
    \/ NextRequest
    \/ /\ rank_pc = "idle"
       /\ \E b \in BidIds, result \in SavedResults, found \in BOOLEAN :
             SaveEvaluation(b, result.overall_score, result.analysis, found, FALSE)

SpecView == InitRanking /\ [][NextView]_vars

\* Bids submitted one after the other, at one time, and two of them at one time.
SubmittedTimes ==
    { DistinctTimes, [b \in BidIds |-> 1], [b \in BidIds |-> IF b = 3 THEN 2 ELSE 1] }
TiedScores == {70, 82}

\* An empty evaluations table and bids of any of these times.
InitTies ==
    /\ InitEvaluations /\ evaluations = {}
    /\ submitted_at \in SubmittedTimes
    /\ earlier_answer = NoAnswerYet
    /\ InitEvaluator /\ project_criteria = SeededCriteria
    /\ IdleDocuments /\ IdleBuild /\ IdleView /\ IdleRoutes

\* The owner asks for the list again and again while evaluations are
\* saved, one request being served at a time.
NextTies ==
    \/ GetProjectEvaluations(ProjectOwner)
    \/ SelectBids
    \/ SelectEvaluation
    \/ NextRequestAfterAnswer
    \/ /\ rank_pc = "idle"
       /\ \E b \in BidIds, score \in TiedScores :
             SaveEvaluation(b, score, PlainAnalysis, FALSE, FALSE)

SpecTies == InitTies /\ [][NextTies]_vars
\* The seeded tables, and the users calling the routes in any order.
Deadlines == {1, 2}
RequestedProjects == {1, 2, 3}
RequestedBidRows == {1, 2, 4}

InitRoutes == InitParse /\ project_criteria = SeededCriteria

NextRoutes ==
    \/ Tick
    \/ \E user \in {"other_org", "bidder_user"}, deadline \in Deadlines :
          create_project(user, deadline)
    \/ \E user \in Users, project_id \in RequestedProjects :
          publish_project(user, project_id)
    \/ \E user \in {"other_bidder", "org_user"}, project_id \in RequestedProjects :
          create_bid(1, user, project_id)
    \/ select_existing_bid(1)
    \/ commit_bid(1)
    \/ \E user \in Bidders, bid_id \in RequestedBidRows : upload_bid_document(user, bid_id)
    \/ \E user \in Bidders, bid_id \in RequestedBidRows : submit_bid(user, bid_id)
    \/ \E user \in Users, project_id \in RequestedProjects, bid_id \in RequestedBidRows :
          award_contract(user, project_id, bid_id)

SpecRoutes == InitRoutes /\ [][NextRoutes]_vars

\* Bidders create bids at the same time, while projects are published and
\* awarded.
NextCreate ==
    \/ \E c \in Calls, user \in Bidders, project_id \in {1, 2} :
          create_bid(c, user, project_id)
    \/ \E c \in Calls : select_existing_bid(c)
    \/ \E c \in Calls : commit_bid(c)
    \/ create_project("other_org", 2)
    \/ publish_project("other_org", 2)

SpecCreate == InitRoutes /\ [][NextCreate]_vars

(***************************************************************************)
(* Claims about _parse_evaluation, checked under SpecParse.                *)
(***************************************************************************)

\* C1: _parse_evaluation never raises: whatever the raw answer text, it
\* returns a result value, so the only exception evaluate_bid can raise is
\* the oracle's own failure.
C1_ParseNeverRaises ==
    evaluation_result.out = "raise" => evaluation_result.exc = "OracleError"

\* C2: every result _parse_evaluation returns contains
\* overall_assessment.overall_score.
C2_OverallScorePresent ==
    eval_pc = "returned" =>
        /\ HasKey(evaluation_result.val, "overall_assessment")
        /\ HasKey(evaluation_result.val.fields["overall_assessment"], "overall_score")

\* C3: when the text handed to the JSON parser is not JSON, the result is the
\* degraded one: the technical, financial, compliance and overall scores are
\* 0, the recommendation is "reject", the summary states the parse error and
\* raw_response is the original input text, unstripped and uncleaned.
C3_DegradedOnParseFailure ==
    (Parsed /\ ~JsonLoads(CleanedText(evaluation_text)).ok) =>
        /\ evaluation_result.out = "return"
        /\ LET f == evaluation_result.val.fields
           IN  /\ f["technical_evaluation"].fields["score"] = Num(0)
               /\ f["financial_evaluation"].fields["score"] = Num(0)
               /\ f["compliance_evaluation"].fields["score"] = Num(0)
               /\ f["overall_assessment"].fields["overall_score"] = Num(0)
               /\ f["overall_assessment"].fields["recommendation"] = Str("reject")
               /\ f["overall_assessment"].fields["summary"]
                      = Str("Error parsing evaluation: JSONDecodeError")
               /\ f["raw_response"] = Text(evaluation_text)
C3_Witness ==
    /\ eval_pc = "returned"
    /\ oracle_answer.body = [kind |-> "other", text |-> <<Prose, Space, Prose>>]
    /\ oracle_answer.pre = <<Space>>
    /\ oracle_answer.post = <<Space>>
    /\ evaluation_result.val.fields["raw_response"] = Text(<<Space, Prose, Space, Prose, Space>>)

\* The score a well-formed section contributes: 0 when the section or its
\* score is missing.
GivenScore(sec) == IF sec = Absent \/ ~HasKey(sec, "score") THEN 0 ELSE sec.fields["score"].n
WellFormedSection(sec) ==
    sec = Absent \/ (IsObj(sec) /\ (HasKey(sec, "score") => IsNum(sec.fields["score"])))

\* C4: an overall_assessment without overall_score gets
\* overall_score = round(0.5*technical + 0.3*financial + 0.2*compliance, 2),
\* a missing section or score counting as 0, whatever the project's criteria
\* weights are (80, 70, 90 give 79.0); an overall_score that is present is
\* returned unchanged.
C4_FallbackOverallScore ==
    (Parsed /\ oracle_answer.body.kind = "evaluation") =>
        LET b    == oracle_answer.body
            data == EvaluationObject(b)
        IN  /\ (/\ IsObj(b.oa) /\ ~HasKey(b.oa, "overall_score")
                /\ WellFormedSection(b.te) /\ WellFormedSection(b.fe)
                /\ WellFormedSection(b.ce)) =>
                   /\ evaluation_result.out = "return"
                   /\ LET got == evaluation_result.val.fields["overall_assessment"]
                          w   == 50 * GivenScore(b.te) + 30 * GivenScore(b.fe)
                                   + 20 * GivenScore(b.ce)
                      IN  /\ HasKey(got, "overall_score") /\ IsNum(got.fields["overall_score"])
                          /\ 100 * got.fields["overall_score"].n - w \in -49..49
                          /\ (GivenScore(b.te) = 8000 /\ GivenScore(b.fe) = 7000
                                /\ GivenScore(b.ce) = 9000)
                                => got.fields["overall_score"] = Num(7900)
                          /\ [k \in DOMAIN b.oa.fields |-> got.fields[k]] = b.oa.fields
                          /\ [k \in DOMAIN data.fields \ {"overall_assessment"} |->
                                 evaluation_result.val.fields[k]]
                               = [k \in DOMAIN data.fields \ {"overall_assessment"} |->
                                     data.fields[k]]
            /\ HasKey(b.oa, "overall_score") => evaluation_result = Return(data)
C4_Witness ==
    /\ eval_pc = "returned"
    /\ project_criteria = [technical_weight |-> 70, financial_weight |-> 30]
    /\ oracle_answer.body.kind = "evaluation"
    /\ oracle_answer.body.te = Obj("score" :> Num(8052))
    /\ oracle_answer.body.fe = Obj("score" :> Num(7021))
    /\ oracle_answer.body.ce = Absent
    /\ oracle_answer.body.oa = Obj("recommendation" :> Str("award"))
    /\ evaluation_result.val.fields["overall_assessment"].fields["overall_score"] = Num(6132)

\* A JSON object text: a text that is one JSON object, brace to brace.
IsJsonObjectText(J) ==
    /\ J # <<>> /\ J[1] = "{" /\ J[Len(J)] = "}"
    /\ JsonLoads(J).ok /\ IsObj(JsonLoads(J).val)
OpeningFences ==
    { <<Backtick, Backtick, Backtick, JsonTag, Space>>,
      <<Backtick, Backtick, Backtick, JsonTag>>,
      <<Backtick, Backtick, Backtick, Space>>,
      <<Space, Backtick, Backtick, Backtick, JsonTag, Space>> }
ClosingFences ==
    { <<Space, Backtick, Backtick, Backtick>>,
      <<Backtick, Backtick, Backtick>>,
      <<Space, Backtick, Backtick, Backtick, Space>> }

\* C5: a JSON object text J wrapped in a markdown code fence (tagged json or
\* untagged, with optional whitespace around) gives the same result as J alone.
C5_FenceIsTransparent ==
    (/\ Parsed
     /\ oracle_answer.pre \in OpeningFences
     /\ oracle_answer.post \in ClosingFences
     /\ IsJsonObjectText(BodyText(oracle_answer.body)))
        => evaluation_result = ParseEvaluation(BodyText(oracle_answer.body))
C5_Witness ==
    /\ Parsed
    /\ oracle_answer.pre = <<Backtick, Backtick, Backtick, JsonTag, Space>>
    /\ oracle_answer.post = <<Space, Backtick, Backtick, Backtick>>
    /\ oracle_answer.body.kind = "evaluation"
    /\ oracle_answer.body.te = Obj("score" :> Num(8000))
    /\ oracle_answer.body.oa = Obj("recommendation" :> Str("award"))
    /\ oracle_answer.body.fe = Obj("score" :> Num(7000))
    /\ oracle_answer.body.ce = Obj("score" :> Num(9000) @@ "status" :> Str("pass"))
    /\ evaluation_result.out = "return"
    /\ evaluation_result.val.fields["overall_assessment"].fields["overall_score"] = Num(7900)

\* The span from the first '{' to the last '}' of a text, when the first '{'
\* comes before the last '}'.
FirstOpen(s) == MinOf({i \in 1..Len(s) : s[i] = "{"})
LastClose(s) == MaxOf({i \in 1..Len(s) : s[i] = "}"})
HasSpan(s) ==
    /\ \E i \in 1..Len(s) : s[i] = "{"
    /\ \E i \in 1..Len(s) : s[i] = "}"
    /\ FirstOpen(s) < LastClose(s)
SpanOf(s) == SubSeq(s, FirstOpen(s), LastClose(s))
BlankOrFence(w) == \A i \in 1..Len(w) : w[i] \in {Space, Backtick, JsonTag}

\* C6 as stated: whenever the text has a span from its first '{' to its last
\* '}', the result is the result for that span alone: the text before and
\* after the span does not change the result.
C6_ProseDoesNotChangeResult ==
    (Parsed /\ HasSpan(evaluation_text))
        => evaluation_result = ParseEvaluation(SpanOf(evaluation_text))

\* C6 as amended: the span from the first '{' to the last '}' is what is
\* parsed whenever it exists: when the span is JSON the result is the one for
\* the span alone, and when it is not, the result is the degraded one, whose
\* raw_response is the whole input text, prose included.  Without a span the
\* whole text, its fence and outer whitespace removed, is parsed.
C6_SpanIsParsed ==
    Parsed =>
        IF HasSpan(evaluation_text)
        THEN LET span == SpanOf(evaluation_text)
             IN  IF JsonLoads(span).ok
                 THEN /\ evaluation_result = FillOverallScore(JsonLoads(span).val)
                      /\ evaluation_result = ParseEvaluation(span)
                 ELSE /\ evaluation_result = Return(DegradedResult(evaluation_text))
                      /\ ParseEvaluation(span) = Return(DegradedResult(span))
        ELSE (BlankOrFence(oracle_answer.pre) /\ BlankOrFence(oracle_answer.post)) =>
                 LET body == BodyText(oracle_answer.body)
                 IN  IF JsonLoads(body).ok
                     THEN evaluation_result = FillOverallScore(JsonLoads(body).val)
                     ELSE evaluation_result = Return(DegradedResult(evaluation_text))
C6_Witness ==
    /\ Parsed
    /\ oracle_answer.pre = <<Prose, Space>>
    /\ oracle_answer.post = <<Space, Prose>>
    /\ oracle_answer.body.kind = "evaluation"
    /\ oracle_answer.body.oa = Obj("overall_score" :> Num(5000) @@ "recommendation" :> Str("award"))
    /\ oracle_answer.body.te = Obj("score" :> Num(8000))
    /\ evaluation_result = Return(EvaluationObject(oracle_answer.body))

C8_RankIsPosition ==
    rank_pc = "returned" =>
        LET list == response.evaluations
        IN  /\ \A i, j \in DOMAIN list :
                  i < j => list[i].overall_score >= list[j].overall_score
            /\ \A i \in DOMAIN list : list[i].rank = i

\* The list get_project_evaluations computes when nothing is written to the
\* table between its reads: the rows of the bids in the order of the bids
\* query, sorted.
RECURSIVE ReadAll(_, _)
ReadAll(order, table) ==
    IF order = <<>> THEN <<>>
    ELSE LET rows == RowsOf(table, Head(order))
         IN  (IF rows = {} THEN <<>> ELSE <<Entry(CHOOSE r \in rows : TRUE)>>)
             \o ReadAll(Tail(order), table)

\* C9: the list returned by get_project_evaluations equals the list computed
\* from the stored evaluations at a single instant of the call, whatever
\* writes and re-evaluations of the project's bids run beside it.
C9_ConsistentSnapshot ==
    rank_pc = "returned" =>
        \E table \in snapshots :
            response = Evaluations(total_bids, ReadAll(BidsBySubmittedAtDesc, table))

Nth(S, i) == CHOOSE k \in S : Cardinality({j \in S : j <= k}) = i

\* The extractors fail on these bytes: some library call on them raises.
PdfFails(pdf) == pdf.out = "raise" \/ \E k \in DOMAIN pdf.val : pdf.val[k].out = "raise"
WordFails(word) == word.out = "raise"
PandasFails(pandas) ==
    \/ pandas.out = "raise"
    \/ \E k \in DOMAIN pandas.val :
          \/ pandas.val[k].to_string.out = "raise"
          \/ pandas.val[k].numeric_cols /\ pandas.val[k].describe.out = "raise"
OpenpyxlFails(openpyxl) ==
    openpyxl.out = "raise" \/ \E k \in DOMAIN openpyxl.val : openpyxl.val[k].rows.out = "raise"

\* The extractor the finished call used has failed, and the name it gives its format.
InternalFailure ==
    \/ extractor = "pdf" /\ PdfFails(file_content.pdf)
    \/ extractor = "docx" /\ WordFails(file_content.word)
    \/ extractor = "excel" /\ PandasFails(file_content.excel.pandas)
                           /\ OpenpyxlFails(file_content.excel.openpyxl)
FormatName ==
    CASE extractor = "pdf" -> "PDF"
      [] extractor = "docx" -> "Word document"
      [] extractor = "excel" -> "Excel file"
      [] OTHER -> ""

\* C11: extract_text never raises, whatever the bytes and the extension:
\* it always returns a text, and when the extractor it used failed inside,
\* that text begins with "Error reading <Format>: " and carries the detail.
C11_ExtractTextNeverRaises ==
    doc_pc = "done" =>
        /\ extracted_text.out = "return"
        /\ InternalFailure =>
              /\ Len(extracted_text.val) = 2
              /\ extracted_text.val[1] = "Error reading " \o FormatName \o ": "

\* A corrupted PDF was given as '.pdf' and came back as the error text.
C11_Witness ==
    /\ doc_pc = "done"
    /\ file_extension = ".pdf"
    /\ file_content.pdf.out = "raise"
    /\ extracted_text = Return(<<"Error reading PDF: ", "EOF marker not found">>)

\* C12: for a PDF whose pages 1..N can all be read, the text is the blocks
\* "--- Page k ---" + text of exactly the pages k with non-empty text, in
\* ascending order of k, joined by blank lines.
C12_PdfPageBlocks ==
    (doc_pc = "done" /\ extractor = "pdf" /\ ~PdfFails(file_content.pdf)) =>
        LET pages == file_content.pdf.val
            withText == {k \in DOMAIN pages : pages[k].val # <<>>}
            block(i) == LET k == Nth(withText, i)
                        IN  <<"--- Page " \o ToString(k) \o " ---\n">> \o pages[k].val
        IN  extracted_text = Return(Join("\n\n", [i \in 1..Cardinality(withText) |-> block(i)]))

\* A PDF of three pages, the second without text: pages 1 and 3 are emitted.
C12_Witness ==
    /\ doc_pc = "done"
    /\ file_extension = ".pdf"
    /\ file_content.pdf = Return(<<Return(<<"alpha">>), Return(<<>>), Return(<<Space>>)>>)
    /\ extracted_text = Return(<<"--- Page 1 ---\n", "alpha", "\n\n", "--- Page 3 ---\n", Space>>)

\* C13: the extension alone decides the extractor: '.pdf' the PDF one,
\* '.docx' and '.doc' the Word one, '.xlsx' and '.xls' the spreadsheet one;
\* any other extension gives the empty text and one warning, whatever the
\* bytes are.
C13_DispatchOnExtension ==
    doc_pc = "done" =>
        /\ extractor = "pdf" <=> file_extension = ".pdf"
        /\ extractor = "docx" <=> file_extension \in {".docx", ".doc"}
        /\ extractor = "excel" <=> file_extension \in {".xlsx", ".xls"}
        /\ extractor \in {"pdf", "docx", "excel", "none"}
        /\ extractor = "pdf" => extracted_text = ExtractFromPdf(file_content.pdf)
        /\ extractor = "docx" => extracted_text = ExtractFromDocx(file_content.word)
        /\ extractor = "excel" =>
              extracted_text = ExtractFromExcel(file_content.excel).result
        /\ extractor # "none" => warnings = <<>>
        /\ extractor = "none" =>
              /\ extracted_text = Return(<<>>)
              /\ warnings = <<"Unsupported file extension: " \o file_extension>>
              /\ \A content \in FileContents :
                    ExtractText(content, file_extension) = Return(<<>>)

\* A readable PDF named '.PDF' came back as the empty text with a warning.
C13_Witness ==
    /\ doc_pc = "done"
    /\ file_content.pdf = Return(<<Return(<<"alpha">>)>>)
    /\ file_extension = ".PDF"
    /\ extracted_text = Return(<<>>)
    /\ warnings = <<"Unsupported file extension: .PDF">>

\* The lines the row-by-row strategy owes for one sheet: the header line,
\* then the rows among the first 100 that hold a value, in their order.
FallbackLines(sheet) ==
    LET rows == sheet.rows.val
        kept == {i \in DOMAIN rows : i <= 100 /\ \E c \in DOMAIN rows[i] : rows[i][c] # NoneCell}
    IN  <<<<"--- Sheet: " \o sheet.sheet_name \o " ---">>>>
            \o [i \in 1..Cardinality(kept) |-> RowText(rows[Nth(kept, i)])]

\* The lines of the sheets, one sheet after the other.
RECURSIVE AllFallbackLines(_)
AllFallbackLines(sheets) ==
    IF sheets = <<>> THEN <<>>
    ELSE FallbackLines(Head(sheets)) \o AllFallbackLines(Tail(sheets))

\* C14: _extract_from_excel tries pandas first and returns its text when it
\* succeeds; only when pandas fails does it go row by row, giving per sheet
\* a header line and the rows among the first 100 that hold a value, cells
\* joined by " | "; the text "Error reading Excel file: ..." is returned
\* exactly when both strategies fail.
C14_ExcelStrategies ==
    (doc_pc = "done" /\ extractor = "excel") =>
        LET excel == file_content.excel
            primaryFails == PandasFails(excel.pandas)
            fallbackFails == OpenpyxlFails(excel.openpyxl)
            text == extracted_text.val
        IN  /\ extracted_text.out = "return"
            /\ strategies = IF primaryFails THEN <<"pandas", "openpyxl">> ELSE <<"pandas">>
            /\ ~primaryFails => extracted_text = PandasBody(excel.pandas)
            /\ (primaryFails /\ ~fallbackFails) =>
                  /\ text = Join("\n", AllFallbackLines(excel.openpyxl.val))
                  /\ \A k \in DOMAIN excel.openpyxl.val :
                        Len(FallbackLines(excel.openpyxl.val[k])) <= 1 + 100
            /\ (primaryFails /\ fallbackFails) <=>
                  (text # <<>> /\ text[1] = "Error reading Excel file: ")

\* pandas failed on a workbook of one sheet with 101 rows, the second of
\* them empty: the text is the header and rows 1, 3, ..., 100.
C14_Witness ==
    /\ doc_pc = "done"
    /\ file_extension = ".xlsx"
    /\ strategies = <<"pandas", "openpyxl">>
    /\ file_content.excel.openpyxl =
           Return(<<[sheet_name |-> "Prices", rows |-> Return(SheetRows(101, {2}))]>>)
    /\ SubSeq(extracted_text.val, 1, 9) =
           <<"--- Sheet: Prices ---", "\n", "1", " | ", "", " | ", "unit", "\n", "3">>
    /\ Len(extracted_text.val) = 1 + 99 * 6
    /\ extracted_text.val[Len(extracted_text.val) - 4] = "100"

(***************************************************************************)
(* The evaluation request builder.                                         *)
(***************************************************************************)
\* The first at most limit characters of a text.
Prefix(text, limit) == [i \in 1..(IF Len(text) < limit THEN Len(text) ELSE limit) |-> text[i]]

\* The type under which a document is to be grouped, and its text.
GroupOf(doc) == IF "document_type" \in DOMAIN doc THEN doc.document_type ELSE "unknown"
TextOf(doc) == IF "extracted_text" \in DOMAIN doc THEN doc.extracted_text ELSE <<>>

\* C15: _prepare_documents puts every document into exactly one group, that
\* of its document_type ("unknown" when it has none), in upload order inside
\* the group, with the first min(len, 5000) characters of its text as
\* content; no group is empty or listed twice.
C15_PrepareDocuments ==
    build_pc \in {"prepared", "formatted"} =>
        /\ \A g, h \in DOMAIN doc_summaries :
              doc_summaries[g].doc_type = doc_summaries[h].doc_type => g = h
        /\ \A i \in DOMAIN doc_input :
              \E g \in DOMAIN doc_summaries : doc_summaries[g].doc_type = GroupOf(doc_input[i])
        /\ \A g \in DOMAIN doc_summaries :
              LET members == {i \in DOMAIN doc_input :
                                  GroupOf(doc_input[i]) = doc_summaries[g].doc_type}
                  docs == doc_summaries[g].docs
              IN  /\ members # {}
                  /\ Len(docs) = Cardinality(members)
                  /\ \A k \in DOMAIN docs :
                        LET doc == doc_input[Nth(members, k)]
                        IN  /\ docs[k].content = Prefix(TextOf(doc), 5000)
                            /\ docs[k].filename =
                                   IF "filename" \in DOMAIN doc THEN doc.filename ELSE NoneCell

\* Two documents: a short technical one, then one of 10000 characters
\* without a type: two groups, the second "unknown" with 5000 characters.
C15_Witness ==
    /\ build_pc = "prepared"
    /\ Len(doc_input) = 2
    /\ DOMAIN doc_input[1] = {"document_type", "filename", "extracted_text", "metadata"}
    /\ DOMAIN doc_input[2] = {"filename", "extracted_text"}
    /\ doc_input[1].document_type = "technical"
    /\ Len(doc_input[2].extracted_text) = 10000
    /\ Len(doc_summaries) = 2
    /\ doc_summaries[1].doc_type = "technical"
    /\ doc_summaries[1].docs[1].content = <<"1", "2", "3">>
    /\ doc_summaries[2].doc_type = "unknown"
    /\ Len(doc_summaries[2].docs[1].content) = 5000

\* The summaries in the order in which _format_documents renders them.
RECURSIVE Entries(_)
Entries(summaries) ==
    IF summaries = <<>> THEN <<>> ELSE Head(summaries).docs \o Entries(Tail(summaries))

\* The characters of which the texts of documents are made.
Characters == {Digits[d] : d \in DOMAIN Digits}

\* The places of a rendering that hold no character of a document.
Literals(rendering) == {i \in DOMAIN rendering : rendering[i] \notin Characters}

\* C16: the stored text of an upload is the first at most 10000 characters
\* of the extractor output, the content of a summary is at most 5000
\* characters, and each excerpt in the prompt is the first at most 2000
\* characters of the content followed by "...": between two literal pieces
\* of the rendering there are never more than 2000 characters.
C16_TruncationLimits ==
    /\ \A d \in DOMAIN documents : Len(documents[d].extracted_text) <= 10000
    /\ bidder_response = Status("200", "Document uploaded successfully") =>
          documents[Len(documents)].extracted_text = Prefix(upload_output, 10000)
    /\ build_pc \in {"prepared", "formatted"} =>
          \A k \in DOMAIN Entries(doc_summaries) : Len(Entries(doc_summaries)[k].content) <= 5000
    /\ build_pc = "formatted" =>
          LET entries == Entries(doc_summaries)
              literals == Literals(formatted)
              marks == {i \in literals : formatted[i] = "...\n"}
          IN  /\ Cardinality(marks) = Len(entries)
              /\ \A k \in DOMAIN entries :
                    LET excerpt == Prefix(entries[k].content, 2000)
                        mark == Nth(marks, k)
                    IN  /\ SubSeq(formatted, mark - Len(excerpt), mark - 1) = excerpt
                        /\ mark - Len(excerpt) - 1 \in literals
              /\ \A i, j \in literals :
                    (i < j /\ ~\E m \in literals : i < m /\ m < j) => j - i - 1 <= 2000
              /\ formatted # <<>> => Len(formatted) \in literals

\* An upload whose extractor output has 10001 characters: 10000 are stored,
\* 5000 are the content, 2000 and the marker are rendered.
C16_Witness ==
    /\ build_pc = "formatted"
    /\ Len(upload_output) = 10001
    /\ Len(documents) = 1
    /\ Len(documents[1].extracted_text) = 10000
    /\ Len(doc_summaries[1].docs[1].content) = 5000
    /\ Len(formatted) = 2003
    /\ formatted[2002] = "0"
    /\ formatted[2003] = "...\n"

(***************************************************************************)
(* The oracle call of evaluate_bid.                                        *)
(***************************************************************************)
\* The oracle call of the running invocation failed.
OracleFailed == eval_pc # "call" /\ oracle_answer = NoAnswer

\* C17: evaluate_bid calls the oracle exactly once per invocation: no call
\* before the request, one after it however it ends; a failed call ends the
\* invocation with the OracleError raised, and neither a parsed nor a
\* degraded result is returned.
C17_OneOracleCall ==
    /\ oracle_calls = (IF eval_pc = "call" THEN 0 ELSE 1)
    /\ OracleFailed =>
          /\ eval_pc = "raised"
          /\ evaluation_result = Raise("OracleError")
    /\ evaluation_result.out = "return" => oracle_answer # NoAnswer

\* The oracle call failed: one call was made and the error is the outcome.
C17_Witness ==
    /\ OracleFailed
    /\ oracle_calls = 1
    /\ eval_pc = "raised"
    /\ evaluation_result = Raise("OracleError")

(***************************************************************************)
(* What bidders and organizations are shown of an evaluation.              *)
(***************************************************************************)
\* The analyses an evaluation row may hold.
StoredAnalyses == {SeededAnalysis, PlainAnalysis, OtherAnalysis, DegradedAnalysis}

\* The table with the part scores and the analysis of the rows of bid b
\* replaced by those of another analysis.
WithAnalysis(table, b, analysis) ==
    {IF r.bid_id = b
     THEN [r EXCEPT !.technical_score = analysis.technical_score,
                    !.financial_score = analysis.financial_score,
                    !.compliance_score = analysis.compliance_score,
                    !.ai_analysis = analysis.ai_analysis]
     ELSE r : r \in table}

\* The bidder who asked owns the bid asked about.
OwnBid(request) ==
    request.bid_id \in BidIds /\ bidder_id[request.bid_id] = request.current_user

\* C18: a bidder is answered about bids of their own only (otherwise 404);
\* the answer holds bid_id, status, overall score, qualification, shortlist
\* flag, rank and date and nothing else, and is the same whatever the part
\* scores and the analysis of the row are; get_project_evaluations
\* answers the owner of the project only (404 to anyone else), with the part
\* scores and the analysis of the stored rows.
C18_EvaluationVisibility ==
    /\ evaluation_response.status = "evaluated" =>
          DOMAIN evaluation_response =
              {"bid_id", "status", "overall_score", "is_qualified", "is_shortlisted",
               "rank", "evaluation_date"}
    /\ evaluation_response.status \in {"evaluated", "pending_evaluation"} =>
          OwnBid(evaluation_request)
    /\ (evaluation_request.current_user # "none" /\ ~OwnBid(evaluation_request)) =>
          evaluation_response = BidNotFound
    /\ \A bid_id \in BidIds, analysis \in StoredAnalyses :
          BidEvaluation(bidder_id[bid_id], bid_id, WithAnalysis(evaluations, bid_id, analysis))
              = BidEvaluation(bidder_id[bid_id], bid_id, evaluations)
    /\ response.status = "200" => caller = ProjectOwner
    /\ caller \notin {"none", ProjectOwner} => rank_pc = "raised" /\ response = NotFound
    /\ rank_pc = "returned" =>
          \A i \in DOMAIN response.evaluations :
              \E r \in evaluations : response.evaluations[i] = Entry(r)

\* The bidder of bid 2 was told its overall score, and the owner of the
\* project was given the analysis of the same bid.
C18_Witness ==
    /\ evaluation_request = [current_user |-> "other_bidder", bid_id |-> 2]
    /\ evaluation_response.status = "evaluated"
    /\ evaluation_response.overall_score = 82
    /\ rank_pc = "returned"
    /\ caller = ProjectOwner
    /\ \E i \in DOMAIN response.evaluations :
          /\ response.evaluations[i].bid_id = 2
          /\ response.evaluations[i].ai_analysis = OtherAnalysis.ai_analysis
          /\ response.evaluations[i].technical_score = 40

\* C19: get_bid_evaluation answers "evaluated" to the bidder of a bid
\* exactly when the evaluations table holds a row of that bid at the time
\* of the call, whatever its scores, and "pending_evaluation" exactly when
\* it holds none.
C19_EvaluatedIffRecord ==
    [][(evaluation_request' # evaluation_request
            \/ evaluation_response' # evaluation_response) =>
          (OwnBid(evaluation_request') =>
              LET rows == RowsOf(evaluations, evaluation_request'.bid_id)
              IN  /\ evaluation_response'.status = "evaluated" <=> rows # {}
                  /\ evaluation_response'.status = "pending_evaluation" <=> rows = {})]_vars

\* A bid whose stored evaluation is a degraded one is reported as evaluated.
C19_Witness ==
    /\ OwnBid(evaluation_request)
    /\ evaluation_response.status = "evaluated"
    /\ evaluation_response.overall_score = 0
    /\ \E r \in evaluations :
          /\ r.bid_id = evaluation_request.bid_id
          /\ r.overall_score = 0
          /\ r.ai_analysis = DegradedAnalysis.ai_analysis

(***************************************************************************)
(* The order of bids of equal score.                                       *)
(***************************************************************************)
\* C20: the list get_project_evaluations returns is a function of the
\* stored bids and evaluations: a call that reads the table an earlier call
\* read returns the list that call returned.
C20_SameDataSameOrder ==
    (rank_pc = "returned" /\ earlier_answer.response.status = "200"
         /\ earlier_answer.table = evaluations) =>
        response.evaluations = earlier_answer.response.evaluations

\* The same, for bids no two of which were submitted at the same time.
C20_SameOrderOfDistinctTimes ==
    (rank_pc = "returned" /\ earlier_answer.response.status = "200"
         /\ earlier_answer.table = evaluations
         /\ \A a, b \in BidIds : submitted_at[a] = submitted_at[b] => a = b) =>
        response.evaluations = earlier_answer.response.evaluations

(***************************************************************************)
(* The life of a bid: created, given documents, submitted, awarded.        *)
(***************************************************************************)
\* The documents of a bid after the step.
DocumentsAfter(bid_id) ==
    {d \in DOMAIN document_rows' : document_rows'[d].bid_id = bid_id}

\* The step submits bid b: it is SUBMITTED afterwards, and either was not
\* before or has another submitted_at.
Submits(b) ==
    /\ bid_rows'[b].status = "submitted"
    /\ \/ bid_rows[b].status # "submitted"
       \/ bid_rows'[b].submitted_at # bid_rows[b].submitted_at

\* C21: the bids table never holds two bids of one bidder for one project.
C21_OneBidPerBidder ==
    \A project_id \in DOMAIN projects, user \in Bidders :
        Cardinality(BidsOf(project_id, user)) <= 1

\* C22: create_bid goes on to create a bid only for a bidder and a project
\* that exists, is ACTIVE and whose deadline has not passed, and answers
\* 403, 404 or 400 otherwise, leaving the bids as they are; the bid it
\* creates is a DRAFT; a project in status DRAFT has no bid and no
\* create_bid call on its way.
C22_CreateBidGuards ==
    /\ [](\A b \in DOMAIN bid_rows :
              /\ role[bid_rows[b].bidder_id] = "bidder"
              /\ bid_rows[b].project_id \in DOMAIN projects
              /\ projects[bid_rows[b].project_id].status # "draft")
    /\ [](\A c \in Calls :
              create_bid_calls[c].pc # "idle" =>
                  projects[create_bid_calls[c].project_id].status # "draft")
    /\ [][\A user \in AllUsers, project_id \in RequestedProjects :
              create_bid(1, user, project_id) =>
                  /\ bid_rows' = bid_rows
                  /\ IF /\ role[user] = "bidder"
                        /\ project_id \in DOMAIN projects
                        /\ projects[project_id].status = "active"
                        /\ projects[project_id].deadline >= utcnow
                     THEN create_bid_calls'[1] =
                              [pc |-> "existing", current_user |-> user,
                               project_id |-> project_id]
                     ELSE /\ create_bid_calls' = create_bid_calls
                          /\ route_response'.status \in {"403", "404", "400"}]_vars
    /\ [][Len(bid_rows') > Len(bid_rows) =>
              /\ create_bid_calls[1].pc = "commit"
              /\ bid_rows' = Append(bid_rows, bid_rows'[Len(bid_rows')])
              /\ bid_rows'[Len(bid_rows')].status = "draft"
              /\ bid_rows'[Len(bid_rows')].submitted_at = NoTime
              /\ bid_rows'[Len(bid_rows')].project_id = create_bid_calls[1].project_id
              /\ bid_rows'[Len(bid_rows')].bidder_id = create_bid_calls[1].current_user]_vars

\* A second project was created and never published, the first has a
\* second bid, a draft, and the last create_bid, for the second project,
\* was answered 400.
C22_Witness ==
    /\ Len(projects) = 2
    /\ projects[2].status = "draft"
    /\ Len(bid_rows) = 2
    /\ bid_rows[2] = [project_id |-> 1, bidder_id |-> "other_bidder", status |-> "draft",
                      submitted_at |-> NoTime]
    /\ route_response = Answer("create_bid", "400", "Project is not accepting bids")

\* C23: no step adds a document to a bid that was submitted before.
C23_NoUploadAfterSubmit ==
    [][\A b \in DOMAIN bid_rows :
           bid_rows[b].submitted_at # NoTime => DocumentsAfter(b) = DocumentsOf(b)]_vars

\* C24: a SUBMITTED bid has a document and a submitted_at; submit_bid on a
\* bid without documents is answered 400 and changes no bid; no step
\* removes or changes a document.
C24_SubmittedHasDocuments ==
    /\ [](\A b \in DOMAIN bid_rows :
              bid_rows[b].status = "submitted" =>
                  DocumentsOf(b) # {} /\ bid_rows[b].submitted_at # NoTime)
    /\ [][\A user \in Bidders, bid_id \in RequestedBidRows :
              (submit_bid(user, bid_id) /\ OwnsBid(user, bid_id)
                   /\ DocumentsOf(bid_id) = {}) =>
                  /\ route_response'.status = "400"
                  /\ bid_rows' = bid_rows]_vars
    /\ [][SubSeq(document_rows', 1, Len(document_rows)) = document_rows]_vars

\* A bid that was created through create_bid was given a document and
\* submitted.
C24_Witness ==
    /\ Len(bid_rows) >= 2
    /\ bid_rows[2].status = "submitted"
    /\ bid_rows[2].submitted_at # NoTime
    /\ DocumentsOf(2) = {2}
    /\ route_response = Answer("submit_bid", "200", "Bid submitted successfully")

\* C25: no step submits a bid that was submitted before.
C25_SubmittedOnce ==
    [][\A b \in DOMAIN bid_rows : bid_rows[b].submitted_at # NoTime => ~Submits(b)]_vars

\* C26: a step that submits a bid is taken while the bid's project is
\* ACTIVE and its deadline has not passed.
C26_SubmittedInWindow ==
    [][\A b \in DOMAIN bid_rows :
           Submits(b) =>
               /\ projects[bid_rows[b].project_id].status = "active"
               /\ projects[bid_rows[b].project_id].deadline >= utcnow]_vars

\* C27: at most one bid of a project is AWARDED.
C27_OneAwardedBid ==
    \A a, b \in DOMAIN bid_rows :
        (/\ bid_rows[a].status = "awarded" /\ bid_rows[b].status = "awarded"
         /\ bid_rows[a].project_id = bid_rows[b].project_id) => a = b

\* C28: an AWARDED bid was submitted.
C28_AwardedWasSubmitted ==
    \A b \in DOMAIN bid_rows :
        bid_rows[b].status = "awarded" => bid_rows[b].submitted_at # NoTime

\* C29: award_contract by the owner of the project, for a bid of that
\* project, sets the status of that bid and of that project to AWARDED in
\* one step and changes nothing else; any other call is answered 404 and
\* changes no project and no bid; no call changes a document.
C29_AwardFrame ==
    [][\A user \in Users, project_id \in RequestedProjects, bid_id \in RequestedBidRows :
           (route_response'.route = "award_contract"
                /\ award_contract(user, project_id, bid_id)) =>
               /\ document_rows' = document_rows
               /\ IF /\ OwnsProject(user, project_id)
                     /\ bid_id \in DOMAIN bid_rows
                     /\ bid_rows[bid_id].project_id = project_id
                  THEN /\ bid_rows' = [bid_rows EXCEPT ![bid_id].status = "awarded"]
                       /\ projects' = [projects EXCEPT ![project_id].status = "awarded"]
                       /\ route_response' \in AwardAnswers
                  ELSE /\ route_response'.status = "404"
                       /\ bid_rows' = bid_rows
                       /\ projects' = projects]_vars

\* The second bid of the first project was awarded: the project is
\* AWARDED, the first bid is as it was, the second project is a draft.
C29_Witness ==
    /\ route_response = Answer("award_contract", "200", "Contract awarded successfully")
    /\ Len(bid_rows) >= 2
    /\ bid_rows[2].status = "awarded"
    /\ bid_rows[2].project_id = 1
    /\ bid_rows[1].status = "submitted"
    /\ projects[1].status = "awarded"
    /\ Len(projects) = 2
    /\ projects[2].status = "draft"

====
